---- MODULE Spec2Model ----
(***************************************************************************)
(* Project-DSView backend: the playground execution pipeline.              *)
(*                                                                         *)
(* A request carries guest source text and pre-supplied input values.      *)
(* ExecuteController.run_code_guest creates a simulator, which runs the    *)
(* guest in a traced child process (InteractivePythonExecutor), turns the  *)
(* trace into steps (DirectCodeExecutor), optionally replays the lines in  *)
(* the server process (StackSimulator) and answers the caller.             *)
(*                                                                         *)
(* The guest program is a sequence of statements, one per source line,     *)
(* each of one of the kinds of LineKinds; "line i" is the i-th statement.  *)
(***************************************************************************)
EXTENDS Integers, Sequences, FiniteSets, TLC

\* ---- bounds of the model ----
MaxLines == 3
MaxInputs == 2

\* ---- program constants ----
\* tests/conftest.py: os.environ["EXECUTION_TIMEOUT"] = "10" (seconds)
TEST_EXECUTION_TIMEOUT == 10
\* StackSimulator.__init__: DirectCodeExecutor(use_docker=False, timeout=30)
timeout == 30

\* The controller's budget is an environment setting without default
\* (core/config.py): the test configuration, or one longer than the
\* executor's own budget.
ExecutionTimeouts == {TEST_EXECUTION_TIMEOUT, timeout + TEST_EXECUTION_TIMEOUT}

\* ---- the guest statements the model runs ----
\*  class     class Stack: pass
\*  assign    s = "a"
\*  multi     s = "a"; t = "b"
\*  print     print(2**3)
\*  input     a = input("p")
\*  tryinput  try: a = input("p") / except Exception: a = ""  (one statement)
\*  raise     x = 1/0
\*  bad       a = is_parentheses_matching("x"); c = is_parentheses_matching(a)
\*  exit      exit(3)
\*  loop      while True: pass
LineKinds ==
  {"class", "assign", "multi", "print", "input", "tryinput", "raise", "bad", "exit", "loop"}

\* Input values are one-character strings, a string being the sequence of
\* its code points: "a" (U+0061) and an emoji outside the basic plane (U+1F600).
InputStrings == {<<97>>, <<128512>>}

RECURSIVE SeqsUpTo(_, _)
SeqsUpTo(S, n) ==
  IF n = 0 THEN {<<>>}
  ELSE LET shorter == SeqsUpTo(S, n - 1)
       IN  shorter \cup {Append(s, x) : s \in {t \in shorter : Len(t) = n - 1}, x \in S}

Programs == SeqsUpTo(LineKinds, MaxLines) \ {<<>>}

Min(S) == CHOOSE x \in S : \A y \in S : x <= y

RECURSIVE Flatten(_)
Flatten(ss) == IF ss = <<>> THEN <<>> ELSE Head(ss) \o Flatten(Tail(ss))

\* ---- json.dumps / Python literal / json.loads on strings ----
\* json.dumps (ensure_ascii) writes a character above U+FFFF as the two
\* \uXXXX escapes of its UTF-16 surrogate pair.
HighSurrogate(c) == 55296 + ((c - 65536) \div 1024)
LowSurrogate(c) == 56320 + ((c - 65536) % 1024)
IsHigh(u) == u >= 55296 /\ u <= 56319
IsLow(u) == u >= 56320 /\ u <= 57343

json_dumps(s) ==
  Flatten([i \in 1..Len(s) |->
    IF s[i] < 128 THEN <<[esc |-> FALSE, unit |-> s[i]]>>
    ELSE IF s[i] < 65536 THEN <<[esc |-> TRUE, unit |-> s[i]]>>
    ELSE <<[esc |-> TRUE, unit |-> HighSurrogate(s[i])]>>
           \o <<[esc |-> TRUE, unit |-> LowSurrogate(s[i])]>>])

\* The wrapper pastes the JSON text into the child's source as a Python
\* literal: the Python parser turns every \uXXXX escape into one character
\* and never joins a surrogate pair.
python_literal(doc) == [i \in 1..Len(doc) |-> doc[i].unit]

\* json.loads joins an escaped high surrogate followed by a low surrogate.
RECURSIVE json_loads(_)
json_loads(doc) ==
  IF doc = <<>> THEN <<>>
  ELSE IF Len(doc) >= 2 /\ doc[1].esc /\ doc[2].esc
          /\ IsHigh(doc[1].unit) /\ IsLow(doc[2].unit)
       THEN <<65536 + (doc[1].unit - 55296) * 1024 + (doc[2].unit - 56320)>>
              \o json_loads(SubSeq(doc, 3, Len(doc)))
       ELSE <<doc[1].unit>> \o json_loads(Tail(doc))

VARIABLES
  code,               \* request.code: the guest program
  inputValues,        \* request.inputValues
  EXECUTION_TIMEOUT,  \* settings.EXECUTION_TIMEOUT
  child,              \* the guest child process
  clock,              \* wall-clock seconds since the request started
  stage,              \* where the worker thread of the request is
  result,             \* InteractiveExecutionResult of the run
  steps,              \* what simulator.execute_code returned
  evaluated,          \* guest expressions evaluated by the server process
  response,           \* what run_code_guest returned to the caller
  guest,              \* tracer study: the guest program and its frames
  tracer,             \* tracer study: trace_data and last_trace_entry
  requests,           \* concurrency study: the requests being served
  simulators,         \* concurrency study: the simulator instances
  handlers,           \* concurrency study: each request's handler
  snapshot,           \* serializer study: the guest's objects and names
  procs,              \* serializer study: the child processes tracing it
  source,             \* classifier study: the method definition being analysed
  classes,            \* classifier study: context["classes"], the analysed methods
  submitted,          \* syntax-error study: the request, its source failing to parse
  reply,              \* syntax-error study: the steps and the response built for it
  context             \* operations study: the simulators' context of one structure

pipeline ==
  <<code, inputValues, EXECUTION_TIMEOUT, child, clock, stage, result, steps,
    evaluated, response>>
tracing == <<guest, tracer>>
serving == <<requests, simulators, handlers>>
studies == <<snapshot, procs, source, classes, submitted, reply, context>>
vars == <<pipeline, tracing, serving, studies>>

NoResponse == [status |-> "none", steps |-> <<>>, errorMessage |-> ""]
NoResult ==
  [exit_code |-> 0, timed_out |-> FALSE, stderr |-> "", trace |-> <<>>,
   stdout |-> <<>>, input_history |-> <<>>]

\* The child before Popen: the wrapper's module-level initial values.
NoChild ==
  [state |-> "none", pc |-> 1, trace_data |-> <<>>, input_values |-> <<>>,
   input_index |-> 0, requests |-> 0, received |-> <<>>,
   captured_stdout |-> <<>>, exit_code |-> 0]

\* The parts of the state a study leaves alone.
NoGuest == [code |-> <<>>, pc |-> 1, at |-> "idle", globals |-> {}, locals |-> {},
            defined |-> FALSE, call_entry |-> 0]
NoTracer == [trace_data |-> <<>>, last_trace_entry |-> 0, emitted |-> FALSE]
TracingIdle == guest = NoGuest /\ tracer = NoTracer
ServingIdle == requests = <<>> /\ simulators = <<>> /\ handlers = <<>>
\* The parts of the state the studies other than the active one leave alone.
StudiesIdle(active) ==
  /\ active # "serializer" => snapshot = [name |-> "none", heap |-> <<>>, frame |-> <<>>] /\ procs = <<>>
  /\ active # "classifier" => source = <<>> /\ classes = <<>>
  /\ active # "syntax" => submitted = <<>> /\ reply = <<>>
  /\ active # "operations" => context = <<>>
PipelineIdle ==
  /\ code = <<>> /\ inputValues = <<>> /\ EXECUTION_TIMEOUT = TEST_EXECUTION_TIMEOUT
  /\ child = NoChild /\ clock = 0 /\ stage = "idle" /\ result = NoResult
  /\ steps = <<>> /\ evaluated = <<>> /\ response = NoResponse

Init ==
  /\ TracingIdle
  /\ ServingIdle
  /\ StudiesIdle("none")
  /\ code \in Programs
  /\ inputValues \in SeqsUpTo(InputStrings, MaxInputs)
  /\ EXECUTION_TIMEOUT \in ExecutionTimeouts
  /\ child = NoChild
  /\ clock = 0
  /\ stage = "start"
  /\ result = NoResult
  /\ steps = <<>>
  /\ evaluated = <<>>
  /\ response = NoResponse

\* execute_with_subprocess: subprocess.Popen([sys.executable, '-c', wrapped]).
\* The wrapper carries json.dumps(input_values) as a Python literal.
Popen ==
  /\ stage = "start"
  /\ child' = [NoChild EXCEPT
       !.state = "running",
       !.input_values = [i \in 1..Len(inputValues) |->
                           python_literal(json_dumps(inputValues[i]))]]
  /\ stage' = "communicate"
  /\ UNCHANGED <<tracing, serving, studies, code, inputValues, EXECUTION_TIMEOUT, clock, result, steps,
                 evaluated, response>>

\* ---- the child process: the traced wrapper around the guest ----
TraceLine(i, out) == [event |-> "line", line |-> i, output |-> out, error |-> ""]
TraceException(msg) == [event |-> "exception", line |-> 0, output |-> "", error |-> msg]

Write(who, text) == [by |-> who, text |-> text]

\* trace_lines: a 'line' event appends the entry of the line about to run
\* (with the output it goes on to write, which the next event attaches).
trace_lines(c, i, out) == [c EXCEPT !.trace_data = Append(@, TraceLine(i, out))]

\* custom_input: print the prompt; hand out input_values[input_index], echo
\* it and advance; with no value left raise Exception("No more input provided").
HasInput(c) == c.input_index < Len(c.input_values)
custom_input(c) ==
  IF HasInput(c)
  THEN [c EXCEPT
         !.requests = @ + 1,
         !.received = Append(@, c.input_values[c.input_index + 1]),
         !.input_index = @ + 1,
         !.captured_stdout = @ \o <<Write("prompt", <<112>>),
                                    Write("echo", c.input_values[c.input_index + 1])>>]
  ELSE [c EXCEPT
         !.requests = @ + 1,
         !.captured_stdout = Append(@, Write("prompt", <<112>>))]

\* except Exception as e: trace_data.append({"event": "exception", ...});
\* the finally block prints the payload and the process ends with code 0.
GuestRaises(c, msg) ==
  [c EXCEPT !.trace_data = Append(@, TraceException(msg)),
            !.state = "exited", !.exit_code = 0]

Advance(c) == [c EXCEPT !.pc = @ + 1]

\* The child runs the statement at line i.
RunLine(c, kind, i) ==
  CASE kind = "class" -> Advance(trace_lines(trace_lines(c, i, ""), i, ""))
    [] kind \in {"assign", "multi"} -> Advance(trace_lines(c, i, ""))
    [] kind = "print" ->
         Advance([trace_lines(c, i, "out") EXCEPT
                    !.captured_stdout = Append(@, Write("print", <<56>>))])
    [] kind = "input" ->
         IF HasInput(c) THEN Advance(custom_input(trace_lines(c, i, "out")))
         ELSE GuestRaises(custom_input(trace_lines(c, i, "out")),
                          "No more input provided")
    [] kind = "tryinput" ->
         IF HasInput(c)
         THEN Advance(custom_input(trace_lines(trace_lines(c, i, ""), i, "out")))
         ELSE Advance(trace_lines(trace_lines(
                custom_input(trace_lines(trace_lines(c, i, ""), i, "out")), i, ""), i, ""))
    [] kind = "raise" -> GuestRaises(trace_lines(c, i, ""), "division by zero")
    [] kind = "bad" ->
         GuestRaises(trace_lines(c, i, ""), "name 'is_parentheses_matching' is not defined")
    [] kind = "exit" -> [trace_lines(c, i, "") EXCEPT !.state = "exited", !.exit_code = 3]
    [] kind = "loop" -> [trace_lines(c, i, "") EXCEPT !.state = "looping"]

\* exec(compiled_code, globals()): one guest statement runs.
ChildLine ==
  /\ child.state = "running"
  /\ child.pc <= Len(code)
  /\ child' = RunLine(child, code[child.pc], child.pc)
  /\ UNCHANGED <<tracing, serving, studies, code, inputValues, EXECUTION_TIMEOUT, clock, stage, result, steps,
                 evaluated, response>>

\* The guest ran to completion: the finally block prints the delimiter and
\* the payload, and the interpreter exits with code 0.
ChildFinish ==
  /\ child.state = "running"
  /\ child.pc > Len(code)
  /\ child' = [child EXCEPT !.state = "exited", !.exit_code = 0]
  /\ UNCHANGED <<tracing, serving, studies, code, inputValues, EXECUTION_TIMEOUT, clock, stage, result, steps,
                 evaluated, response>>

Alive(c) == c.state \in {"running", "looping"}

\* ---- time ----
\* The deadlines still ahead: asyncio.wait_for in the controller while it
\* has not answered, communicate(timeout) in the worker while the child lives.
Deadlines ==
  (IF response = NoResponse THEN {EXECUTION_TIMEOUT} ELSE {})
    \cup (IF Alive(child) THEN {timeout} ELSE {})

\* Time passes while the guest spins; it stops at the next deadline.
Tick ==
  /\ child.state = "looping"
  /\ Deadlines # {}
  /\ \A d \in Deadlines : d > clock
  /\ clock' = Min(Deadlines)
  /\ UNCHANGED <<tracing, serving, studies, code, inputValues, EXECUTION_TIMEOUT, child, stage, result, steps,
                 evaluated, response>>

JsonRoundTrip(s) == json_loads(json_dumps(s))

\* process.communicate() returns; _parse_interactive_output splits the
\* payload after the delimiter and json.loads it.
Communicate ==
  /\ stage = "communicate"
  /\ child.state = "exited"
  /\ result' =
       [exit_code |-> child.exit_code, timed_out |-> FALSE, stderr |-> "",
        trace |-> child.trace_data,
        stdout |-> [i \in 1..Len(child.captured_stdout) |->
                      Write(child.captured_stdout[i].by,
                            JsonRoundTrip(child.captured_stdout[i].text))],
        input_history |-> [i \in 1..child.input_index |->
                             JsonRoundTrip(child.input_values[i])]]
  /\ stage' = "executed"
  /\ UNCHANGED <<tracing, serving, studies, code, inputValues, EXECUTION_TIMEOUT, child, clock, steps,
                 evaluated, response>>

\* except subprocess.TimeoutExpired: process.kill(); exit_code = -1,
\* timed_out = True. Nothing the child held in memory reaches the parent.
SubprocessTimeout ==
  /\ stage = "communicate"
  /\ Alive(child)
  /\ clock >= timeout
  /\ child' = [child EXCEPT !.state = "killed", !.exit_code = -1]
  /\ result' = [NoResult EXCEPT !.exit_code = -1, !.timed_out = TRUE,
                                !.stderr = "Code execution timed out"]
  /\ stage' = "executed"
  /\ UNCHANGED <<tracing, serving, studies, code, inputValues, EXECUTION_TIMEOUT, clock, steps, evaluated,
                 response>>

\* ---- DirectCodeExecutor: from the result to execution steps ----
Step(n, i, err, out, op) ==
  [stepNumber |-> n, line |-> i, error |-> err, output |-> out, operation |-> op]

\* The trace loop of _create_steps_from_result: an exception event becomes
\* an error step on the last step's line, a line event an "execution" step.
RECURSIVE StepsFromTrace(_, _)
StepsFromTrace(trace, done) ==
  IF trace = <<>> THEN done
  ELSE LET t == Head(trace)
           n == Len(done) + 1
       IN  StepsFromTrace(Tail(trace),
             Append(done,
               IF t.event = "exception"
               THEN Step(n, IF done = <<>> THEN 1 ELSE done[Len(done)].line,
                         t.error, "", "none")
               ELSE Step(n, t.line, "", t.output, "execution")))

\* Without a trace: one "print" step, with no output, for each source line
\* holding a print statement; failing those, one "Code executed
\* successfully" step on line 1.
RECURSIVE PrintSteps(_, _, _)
PrintSteps(prog, i, done) ==
  IF i > Len(prog) THEN done
  ELSE PrintSteps(prog, i + 1,
         IF prog[i] = "print"
         THEN Append(done, Step(Len(done) + 1, i, "", "", "print"))
         ELSE done)

create_steps_from_result(prog, res) ==
  IF res.trace # <<>> THEN StepsFromTrace(res.trace, <<>>)
  ELSE IF PrintSteps(prog, 1, <<>>) # <<>> THEN PrintSteps(prog, 1, <<>>)
  ELSE <<Step(1, 1, "", "", "none")>>

\* _create_error_step: line 1, error = result.stderr or "Execution failed".
create_error_step(res, n) ==
  Step(n, 1, IF res.stderr # "" THEN res.stderr ELSE "Execution failed", "", "none")

\* DirectCodeExecutor.execute: the steps of the result, then an error step
\* numbered step_number + len(steps) when the exit code is not 0.
execute(prog, res) ==
  LET made == create_steps_from_result(prog, res)
  IN  IF res.exit_code # 0
      THEN Append(made, create_error_step(res, 1 + Len(made)))
      ELSE made

\* ---- StackSimulator.execute_code: the line loop in the server process ----
HasOutput(st) == st.operation = "print" \/ st.output # ""

\* The execution step a print line takes its output from: the first one on
\* that line that printed, else the next unused one in printing order.
ExecutionStepForLine(execution_steps, made, i) ==
  LET onLine == {j \in 1..Len(execution_steps) :
                   execution_steps[j].line = i /\ HasOutput(execution_steps[j])}
      print_steps == SelectSeq(execution_steps, HasOutput)
      print_count_before == Len(SelectSeq(made, HasOutput))
  IN  IF onLine # {} THEN <<execution_steps[Min(onLine)]>>
      ELSE IF print_count_before < Len(print_steps)
           THEN <<print_steps[print_count_before + 1]>>
           ELSE <<>>

\* PrintHandler._evaluate_print_content: eval(print_content, ...) in the
\* server process; the step carries what the evaluation printed.
handle_print_statement(acc, i) ==
  [acc EXCEPT !.steps = Append(@, Step(acc.step_number, i, "", "out", "print")),
              !.step_number = @ + 1,
              !.evaluated = Append(@, i)]

\* One turn of the loop over the source lines.
ProcessLine(acc, kind, i, execution_steps) ==
  CASE kind = "print" ->
         LET found == ExecutionStepForLine(execution_steps, acc.steps, i)
         IN  IF found # <<>> /\ found[1].output # ""
             THEN [acc EXCEPT !.steps = Append(@, found[1]), !.step_number = @ + 1]
             ELSE handle_print_statement(acc, i)
    [] kind = "assign" ->
         [acc EXCEPT !.steps = Append(@, Step(acc.step_number, i, "", "", "assignment")),
                     !.step_number = @ + 1]
    [] kind = "exit" ->
         [acc EXCEPT !.steps = Append(@, Step(acc.step_number, i, "", "", "function_call")),
                     !.step_number = @ + 1]
    [] kind = "multi" ->
         \* _handle_multiple_statements numbers a step per statement; the
         \* caller adds one to step_number for the whole line.
         [acc EXCEPT !.steps = @ \o <<Step(acc.step_number, i, "", "", "assignment"),
                                      Step(acc.step_number + 1, i, "", "", "assignment")>>,
                     !.step_number = @ + 1]
    [] kind = "bad" ->
         \* the first statement makes its step, the second raises TypeError:
         \* the loop appends an error step with step_number and re-raises.
         [acc EXCEPT !.steps = @ \o <<Step(acc.step_number, i, "", "", "function_call"),
                                      Step(acc.step_number, i,
                                           "'bool' object is not iterable", "", "none")>>,
                     !.raised = TRUE]
    [] OTHER -> acc

RECURSIVE LineLoop(_, _, _, _)
LineLoop(acc, prog, i, execution_steps) ==
  IF i > Len(prog) \/ acc.raised THEN acc
  ELSE LineLoop(ProcessLine(acc, prog[i], i, execution_steps), prog, i + 1,
                execution_steps)

has_input(prog) == \E i \in 1..Len(prog) : prog[i] \in {"input", "tryinput"}
is_simulation(prog) == (\E i \in 1..Len(prog) : prog[i] = "class") /\ ~has_input(prog)

\* execute_code: the direct executor's steps for arbitrary code; for a
\* simulation the line loop runs too, and its own list is returned when
\* the loop raised (except Exception: return steps).
execute_code(prog, res) ==
  LET execution_steps == execute(prog, res)
      start == [steps |-> <<>>, step_number |-> 1, raised |-> FALSE, evaluated |-> <<>>]
      acc == LineLoop(start, prog, 1, execution_steps)
  IN  IF ~is_simulation(prog)
      THEN [steps |-> execution_steps, evaluated |-> <<>>]
      ELSE IF acc.raised
           THEN [steps |-> acc.steps, evaluated |-> acc.evaluated]
           ELSE [steps |-> execution_steps, evaluated |-> acc.evaluated]

\* The worker thread: simulator.execute_code(code, exec_id, created_at)
\* carries on after communicate() returned.
ExecuteCode ==
  /\ stage = "executed"
  /\ steps' = execute_code(code, result).steps
  /\ evaluated' = execute_code(code, result).evaluated
  /\ stage' = "returned"
  /\ UNCHANGED <<tracing, serving, studies, code, inputValues, EXECUTION_TIMEOUT, child, clock, result, response>>

\* ---- ExecuteController.run_code_guest: the answer ----
ErrorSteps(ss) == {j \in 1..Len(ss) : ss[j].error # ""}

\* The wrapper never writes the __WAITING_FOR_INPUT__ marker, so no step
\* has state["waiting_for_input"].
waiting_for_input(st) == FALSE

create_response(ss) ==
  IF ErrorSteps(ss) # {}
  THEN [status |-> "error", steps |-> ss, errorMessage |-> ss[Min(ErrorSteps(ss))].error]
  ELSE IF ss # <<>> /\ waiting_for_input(ss[Len(ss)])
  THEN [status |-> "waiting", steps |-> ss, errorMessage |-> ""]
  ELSE [status |-> "success", steps |-> ss, errorMessage |-> ""]

\* _execute_with_timeout returned within the budget.
Respond ==
  /\ stage = "returned"
  /\ response = NoResponse
  /\ response' = create_response(steps)
  /\ stage' = "done"
  /\ UNCHANGED <<tracing, serving, studies, code, inputValues, EXECUTION_TIMEOUT, child, clock, result, steps,
                 evaluated>>

\* except TimeoutError: asyncio.wait_for gave up on the worker thread, which
\* runs on; the answer is an error response without steps.
ControllerTimeout ==
  /\ response = NoResponse
  /\ stage # "start"
  /\ clock >= EXECUTION_TIMEOUT
  /\ response' = [status |-> "error", steps |-> <<>>,
                  errorMessage |-> "Execution timeout - code took too long to execute"]
  /\ UNCHANGED <<tracing, serving, studies, code, inputValues, EXECUTION_TIMEOUT, child, clock, stage, result,
                 steps, evaluated>>

Next ==
  \/ Popen
  \/ ChildLine
  \/ ChildFinish
  \/ Tick
  \/ Communicate
  \/ SubprocessTimeout
  \/ ExecuteCode
  \/ Respond
  \/ ControllerTimeout

Spec == Init /\ [][Next]_vars

\* ---- what the run was, read off the child ----
LineEntries(c) == SelectSeq(c.trace_data, LAMBDA t : t.event = "line")
Raised(c) == c.trace_data # <<>> /\ c.trace_data[Len(c.trace_data)].event = "exception"
BudgetExceeded(c) == c.state \in {"looping", "killed"}
GuestFailed(c) == Raised(c) \/ c.exit_code # 0 \/ BudgetExceeded(c)
Exhausted(c) == c.requests > Len(c.input_values)
Answered == response # NoResponse
Echoes(out) == SelectSeq(out, LAMBDA w : w.by = "echo")

\* C1: on every path the returned steps are numbered 1, 2, ..., M in list
\* order, without gap or duplicate.
C1_StepNumbersConsecutive ==
  Answered => \A j \in 1..Len(response.steps) : response.steps[j].stepNumber = j

\* C2: when the guest run fails (exception, non-zero exit, timeout) after k
\* traced lines, the answer holds the steps of those k lines, in order,
\* followed by exactly one terminal error step.
C2_TracedStepsKeptOnFailure ==
  (Answered /\ GuestFailed(child)) =>
    LET traced == LineEntries(child)
        k == Len(traced)
    IN  /\ Len(response.steps) = k + 1
        /\ \A j \in 1..k : /\ response.steps[j].line = traced[j].line
                           /\ response.steps[j].error = ""
        /\ response.steps[k + 1].error # ""

\* C3: the child's exit code is 0 if and only if the guest ran to
\* completion without an uncaught exception.
C3_ExitCodeZeroIffNoException ==
  child.state = "exited" => (child.exit_code = 0 <=> ~Raised(child))

\* C4: no guest process is still running once the response of its request
\* has been produced.
C4_NoChildAfterResponse ==
  Answered => ~Alive(child)

\* C5: a run ended by the wall-clock budget is answered with status
\* "timeout".
C5_TimeoutStatus ==
  (Answered /\ BudgetExceeded(child)) => response.status = "timeout"

\* C6: when the guest asked for more inputs than were supplied, the caller
\* gets status "waiting" or a failure marked as input-exhausted.
C6_InputExhaustedReported ==
  (Answered /\ Exhausted(child)) =>
    \/ response.status = "waiting"
    \/ /\ response.status = "error"
       /\ response.errorMessage = "No more input provided"

\* C7: the k-th input request receives exactly the k-th supplied value,
\* each value is echoed to the captured output, and the reported input
\* history is the prefix of the values consumed.
C7_InputsDeliveredInOrder ==
  /\ \A k \in 1..Len(child.received) : child.received[k] = inputValues[k]
  /\ Len(child.received) = child.input_index
  /\ [k \in 1..child.input_index |-> Echoes(child.captured_stdout)[k].text]
       = child.received
  /\ (stage \in {"executed", "returned", "done"} /\ ~result.timed_out) =>
       result.input_history = SubSeq(inputValues, 1, child.input_index)

\* C9: the server process never evaluates guest expressions itself.
C9_NoInProcessEvaluation ==
  evaluated = <<>>

(***************************************************************************)
(* The tracer in detail: look-back capture of variable snapshots.          *)
(*                                                                         *)
(* The guest statements of this study, at module level:                    *)
(*   set    x = <next number>                                              *)
(*   def    def f(a): / b = a + 1 / return b                               *)
(*   call   y = f(1)                                                       *)
(*   raise  x = 1/0                                                        *)
(* A namespace is a set of <<name, value>> pairs. Snapshots hold the data  *)
(* names the guest assigned.                                               *)
(***************************************************************************)
MaxTraceLines == 4
TraceKinds == {"set", "def", "call", "raise"}

Value(ns, name) == IF \E p \in ns : p[1] = name
                   THEN (CHOOSE p \in ns : p[1] = name)[2] ELSE 0
Bind(ns, name, v) == {p \in ns : p[1] # name} \cup {<<name, v>>}

\* Locals of the generator expression inside safe_serialize
\* (any(k in obj_dict for k in ds_keys)), whose file name is "<string>" too.
HelperLocals == {<<".0", 0>>, <<"obj_dict", 0>>}

Pending == {<<"?", 0>>}
Entry(i, fn) ==
  [event |-> "line", line |-> i, func |-> fn, variables |-> {}, after |-> Pending,
   error |-> ""]

\* trace_lines on a 'line' event in a frame with locals f_locals: the
\* previous entry gets the current frame's locals as its variables, then
\* the entry of the current line is appended with variables {}.
trace_event(tr, f_locals, i, fn) ==
  LET looked == IF tr.last_trace_entry = 0 THEN tr.trace_data
                ELSE [tr.trace_data EXCEPT ![tr.last_trace_entry].variables = f_locals]
  IN  [tr EXCEPT !.trace_data = Append(looked, Entry(i, fn)),
                 !.last_trace_entry = Len(looked) + 1]

\* The guest state after the line of entry n has executed.
Settle(tr, n, ns) == [tr EXCEPT !.trace_data[n].after = ns]

InitTrace ==
  /\ PipelineIdle
  /\ ServingIdle
  /\ StudiesIdle("none")
  /\ guest \in {[NoGuest EXCEPT !.code = p, !.at = "module"] :
                  p \in SeqsUpTo(TraceKinds, MaxTraceLines) \ {<<>>}}
  /\ tracer = NoTracer

\* A statement at module level runs: the line event, then the statement.
ModuleLine ==
  /\ guest.at = "module"
  /\ guest.pc <= Len(guest.code)
  /\ LET kind == guest.code[guest.pc]
         tr == trace_event(tracer, guest.globals, guest.pc, "<module>")
         n == tr.last_trace_entry
         next_x == Bind(guest.globals, "x", Value(guest.globals, "x") + 1)
     IN  CASE kind = "set" ->
                /\ guest' = [guest EXCEPT !.globals = next_x, !.pc = @ + 1]
                /\ tracer' = Settle(tr, n, next_x)
           [] kind = "def" ->
                /\ guest' = [guest EXCEPT !.defined = TRUE, !.pc = @ + 1]
                /\ tracer' = Settle(tr, n, guest.globals)
           [] kind = "call" /\ guest.defined ->
                /\ guest' = [guest EXCEPT !.at = "f1", !.locals = {<<"a", 1>>},
                                          !.call_entry = n]
                /\ tracer' = tr
           [] OTHER ->
                \* x = 1/0, or f(1) with f unbound: the statement raises
                /\ guest' = [guest EXCEPT !.at = "raised"]
                /\ tracer' = Settle(tr, n, guest.globals)
  /\ UNCHANGED <<pipeline, serving, studies>>

\* A line of f's body runs: b = a + 1, then return b, which ends the call
\* statement y = f(1) of the caller.
CalleeLine ==
  /\ guest.at \in {"f1", "f2"}
  /\ LET tr == trace_event(tracer, guest.locals, IF guest.at = "f1" THEN 1 ELSE 2, "f")
         n == tr.last_trace_entry
         with_b == Bind(guest.locals, "b", Value(guest.locals, "a") + 1)
         with_y == Bind(guest.globals, "y", Value(guest.locals, "b"))
     IN  IF guest.at = "f1"
         THEN /\ guest' = [guest EXCEPT !.at = "f2", !.locals = with_b]
              /\ tracer' = Settle(tr, n, with_b)
         ELSE /\ guest' = [guest EXCEPT !.at = "module", !.locals = {},
                                        !.globals = with_y, !.pc = @ + 1]
              /\ tracer' = Settle(Settle(tr, n, guest.locals), guest.call_entry, with_y)
  /\ UNCHANGED <<pipeline, serving, studies>>

\* After exec() returned, still under settrace: final_vars, the globals,
\* go to last_trace_entry. Serializing a global that has a __dict__ (the
\* function f) runs safe_serialize's generator expression, a traced frame
\* (one line event per key it tries; the model keeps the first).
FinalCapture ==
  /\ guest.at = "module"
  /\ guest.pc > Len(guest.code)
  /\ guest' = [guest EXCEPT !.at = "finally"]
  /\ tracer' =
       IF tracer.last_trace_entry = 0 THEN tracer
       ELSE IF guest.defined
       THEN LET tr == trace_event(tracer, HelperLocals, 124, "<genexpr>")
            IN  [tr EXCEPT !.trace_data[tr.last_trace_entry].variables =
                              Bind(guest.globals, "f", 0)]
       ELSE IF guest.globals # {}
       THEN [tracer EXCEPT !.trace_data[tracer.last_trace_entry].variables =
                              guest.globals]
       ELSE tracer
  /\ UNCHANGED <<pipeline, serving, studies>>

\* except Exception as e: the exception event is appended; no capture.
ExceptHandler ==
  /\ guest.at = "raised"
  /\ guest' = [guest EXCEPT !.at = "finally"]
  /\ tracer' = [tracer EXCEPT !.trace_data =
                  Append(@, [Entry(0, "") EXCEPT !.event = "exception",
                                                 !.error = "raised"])]
  /\ UNCHANGED <<pipeline, serving, studies>>

\* finally: sys.settrace(None); the trace is printed after the delimiter.
Finally ==
  /\ guest.at = "finally"
  /\ guest' = [guest EXCEPT !.at = "exited"]
  /\ tracer' = [tracer EXCEPT !.emitted = TRUE]
  /\ UNCHANGED <<pipeline, serving, studies>>

NextTrace == ModuleLine \/ CalleeLine \/ FinalCapture \/ ExceptHandler \/ Finally

SpecTrace == InitTrace /\ [][NextTrace]_vars

\* C10: every trace entry belongs to a guest line, in execution order, and
\* its snapshot is the guest state after that line executed, also for the
\* last entry and for entries followed by a call, a return or an exception.
C10_SnapshotIsStateAfterLine ==
  tracer.emitted =>
    \A n \in 1..Len(tracer.trace_data) :
      tracer.trace_data[n].event = "line" =>
        /\ tracer.trace_data[n].func \in {"<module>", "f"}
        /\ tracer.trace_data[n].variables = tracer.trace_data[n].after

(***************************************************************************)
(* Concurrent requests: what one handler writes and another could read.    *)
(*                                                                         *)
(* Each request is served by its own run_code_guest call; execute_code     *)
(* runs in a worker thread (asyncio.to_thread), so the steps of different  *)
(* handlers interleave. A request of this study assigns string literals    *)
(* to the names of its lines, one per line, and brings input values.       *)
(***************************************************************************)
MaxRequests == 2

RequestKinds ==
  { [inputValues |-> <<"u">>, lines |-> <<"s", "t">>],
    [inputValues |-> <<"v">>, lines |-> <<"t">>],
    [inputValues |-> <<>>, lines |-> <<"s">>] }

\* BaseSimulator.__init__: reset_context(); _input_values is not set yet
\* (execute_code reads it with getattr(self, '_input_values', [])).
NewSimulator == [_input_values |-> <<>>, context |-> {}]
NewHandler ==
  [stage |-> "new", simulator |-> 0, input_values |-> <<>>, pc |-> 1,
   steps |-> <<>>, overlapped |-> FALSE, response |-> <<>>]

\* A factory that hands every caller its one instance.
shared_simulator(instances) == 1

\* SimulatorFactory.create_simulator: return simulator_class(), a new object.
create_simulator(instances) == Len(instances) + 1

\* The steps of the child for the input values it was handed (one echo
\* each), and a simulator step with the context's variables in its state.
EchoSteps(values) == [k \in 1..Len(values) |-> [line |-> k, output |-> values[k]]]
ContextStep(i, ctx) == [line |-> i, variables |-> ctx]

\* The same request served alone.
RECURSIVE AloneSteps(_, _, _)
AloneSteps(lines, i, ctx) ==
  IF i > Len(lines) THEN <<>>
  ELSE <<ContextStep(i, Bind(ctx, lines[i], 1))>>
         \o AloneSteps(lines, i + 1, Bind(ctx, lines[i], 1))

Alone(req) ==
  <<[execution_steps |-> EchoSteps(req.inputValues),
     steps |-> AloneSteps(req.lines, 1, {})]>>

InFlight(r) ==
  \E o \in DOMAIN handlers : o # r /\ handlers[o].stage \in {"created", "ready", "running"}

InitConc ==
  /\ PipelineIdle
  /\ TracingIdle
  /\ StudiesIdle("none")
  /\ requests \in [1..MaxRequests -> RequestKinds]
  /\ simulators = <<>>
  /\ handlers = [r \in 1..MaxRequests |-> NewHandler]

\* run_code_guest: simulator = self.simulator_factory.create_simulator(data_type)
CreateSimulator(r) ==
  /\ handlers[r].stage = "new"
  /\ LET id == create_simulator(simulators)
     IN  /\ simulators' = IF id \in DOMAIN simulators THEN simulators
                          ELSE Append(simulators, NewSimulator)
         /\ handlers' = [handlers EXCEPT ![r].stage = "created", ![r].simulator = id,
                                         ![r].overlapped = @ \/ InFlight(r)]
  /\ UNCHANGED <<pipeline, tracing, studies, requests>>

\* _execute_with_simulator: if input_values: simulator._input_values = input_values
SetInputValues(r) ==
  /\ handlers[r].stage = "created"
  /\ simulators' = IF requests[r].inputValues # <<>>
                   THEN [simulators EXCEPT ![handlers[r].simulator]._input_values =
                                             requests[r].inputValues]
                   ELSE simulators
  /\ handlers' = [handlers EXCEPT ![r].stage = "ready",
                                  ![r].overlapped = @ \/ InFlight(r)]
  /\ UNCHANGED <<pipeline, tracing, studies, requests>>

\* execute_code in the worker thread: self.reset_context(), then the child
\* is run with getattr(self, '_input_values', []).
StartExecute(r) ==
  /\ handlers[r].stage = "ready"
  /\ simulators' = [simulators EXCEPT ![handlers[r].simulator].context = {}]
  /\ handlers' = [handlers EXCEPT
       ![r].stage = "running",
       ![r].input_values = simulators[handlers[r].simulator]._input_values,
       ![r].overlapped = @ \/ InFlight(r)]
  /\ UNCHANGED <<pipeline, tracing, studies, requests>>

\* One turn of the line loop: the statement parser binds the name in
\* self.context["variables"]; _create_execution_step copies the context's
\* variables into the step's state.
SimulateLine(r) ==
  /\ handlers[r].stage = "running"
  /\ handlers[r].pc <= Len(requests[r].lines)
  /\ LET id == handlers[r].simulator
         ctx == Bind(simulators[id].context, requests[r].lines[handlers[r].pc], 1)
     IN  /\ simulators' = [simulators EXCEPT ![id].context = ctx]
         /\ handlers' = [handlers EXCEPT
              ![r].steps = Append(@, ContextStep(handlers[r].pc, ctx)),
              ![r].pc = @ + 1,
              ![r].overlapped = @ \/ InFlight(r)]
  /\ UNCHANGED <<pipeline, tracing, studies, requests>>

\* execute_code returns and run_code_guest answers.
AnswerRequest(r) ==
  /\ handlers[r].stage = "running"
  /\ handlers[r].pc > Len(requests[r].lines)
  /\ handlers' = [handlers EXCEPT
       ![r].stage = "done",
       ![r].response = <<[execution_steps |-> EchoSteps(handlers[r].input_values),
                          steps |-> handlers[r].steps]>>]
  /\ UNCHANGED <<pipeline, tracing, studies, requests, simulators>>

NextConc ==
  \/ \E r \in DOMAIN handlers : CreateSimulator(r)
  \/ \E r \in DOMAIN handlers : SetInputValues(r)
  \/ \E r \in DOMAIN handlers : StartExecute(r)
  \/ \E r \in DOMAIN handlers : SimulateLine(r)
  \/ \E r \in DOMAIN handlers : AnswerRequest(r)

SpecConc == InitConc /\ [][NextConc]_vars

\* C8: under any interleaving, a request's answer is the one it gets when
\* served alone.
C8_SameAsServedAlone ==
  \A r \in DOMAIN handlers :
    handlers[r].stage = "done" => handlers[r].response = Alone(requests[r])

\* Two different requests, each served while the other was in flight, have
\* both been answered.
C8_Witness ==
  /\ Len(handlers) >= 2
  /\ handlers[1].stage = "done" /\ handlers[2].stage = "done"
  /\ handlers[1].overlapped /\ handlers[2].overlapped
  /\ requests[1] # requests[2]
  /\ handlers[1].response[1].steps # <<>>
  /\ handlers[1].response[1].execution_steps # <<>>

(***************************************************************************)
(* The serializer in detail: safe_serialize on the guest's object graph.   *)
(*                                                                         *)
(* A guest value is None, an int, a str or a reference to an object of the *)
(* heap: a record [k, n, s] with k "none", "int", "str" or "ref"; the      *)
(* object's identity (id(obj)) is its index n in the heap. An object       *)
(* [type, kind, items, str] is a list, tuple, set or dict, or an instance  *)
(* of a guest class; its items are [key, v] pairs in iteration order (the  *)
(* key [k, name, n, underscore] is used by dicts and instances only).      *)
(* Serialized output is a tree of records of one shape, so that any two    *)
(* outputs can be compared.                                                *)
(***************************************************************************)
MaxOver == 1
MaxRing == 12
MaxEvents == 2

\* def safe_serialize(obj, depth=0, max_depth=10, return_size=False)
max_depth == 10
\* if len(obj) > 50: ... obj[:50] ... + ["<truncated>"]
size_cap == 50

\* The serialized forms: null, a primitive, a str the serializer makes up
\* ("<max depth exceeded>", "<truncated>", "..."), and a key's entry in a
\* dict. Lists are Out("list", ...), dicts Out("dict", ...), the marker of
\* an object met again Out("typename", ...), str(obj) Out("repr", ...).
Out(tag, name, val, items) == [tag |-> tag, name |-> name, val |-> val, items |-> items]
NoneOut == Out("null", "", 0, <<>>)
PrimOut(v) == Out(v.k, v.s, v.n, <<>>)
StrOut(s) == Out("str", s, 0, <<>>)
EntryOut(name, n, o) == Out("entry", name, n, <<o>>)

\* The state safe_serialize reads and writes besides its arguments:
\* seen_ids, whether sys.settrace is still on, whether an exception is
\* propagating, and the line events trace_lines has handled on the way.
Serializer(traced) == [seen_ids |-> {}, traced |-> traced, raised |-> FALSE, events |-> 0]

IsPrimitive(v) == v.k \in {"int", "str"}
Take(seq, n) == IF Len(seq) > n THEN SubSeq(seq, 1, n) ELSE seq
Reverse(seq) == [i \in 1..Len(seq) |-> seq[Len(seq) + 1 - i]]

\* ds_keys, in the order the set literal lists them.
ds_keys ==
  <<"head", "next", "prev", "data", "val", "value", "count", "root", "nodes",
    "edges", "left", "right", "adjacency_list", "graph", "adj_list">>

HasKey(o, name) == \E i \in 1..Len(o.items) : o.items[i].key.name = name

\* Iteration order of a set: a set of str is ordered by the hashes of this
\* process (hash randomization), a set of int by the values.
SetOrder(env, items) ==
  IF env.hashseed = 1 /\ \A i \in 1..Len(items) : items[i].v.k = "str"
  THEN Reverse(items) ELSE items

\* The marker of an object met again (lines 113-125): the type name, with
\* the first primitive attribute among keys if there is one.
RECURSIVE circular_marker(_, _)
circular_marker(o, keys) ==
  IF o.kind # "obj" \/ keys = <<>> THEN Out("typename", o.type, 0, <<>>)
  ELSE LET at == {i \in 1..Len(o.items) : o.items[i].key.name = Head(keys)}
       IN IF at # {} /\ IsPrimitive(o.items[Min(at)].v)
          THEN Out("typename", o.type, o.items[Min(at)].v.n, <<PrimOut(o.items[Min(at)].v)>>)
          ELSE circular_marker(o, Tail(keys))

\* for k, v in obj.items(): ... if count >= 50: ... break
\* The entries the loop visits: up to the one that makes the count reach cap.
RECURSIVE DictPrefix(_, _)
DictPrefix(items, cap) ==
  IF items = <<>> \/ cap = 0 THEN <<>>
  ELSE <<Head(items)>> \o
       DictPrefix(Tail(items), IF Head(items).key.k \in {"str", "int"} THEN cap - 1 ELSE cap)

\* any(k in obj_dict for k in ds_keys): the number of keys the generator
\* tries, in the iteration order of the set under the process's hash seed.
KeysTried(env, o) ==
  LET order == IF env.hashseed = 1 THEN Reverse(ds_keys) ELSE ds_keys
      hits == {i \in 1..Len(order) : HasKey(o, order[i])}
  IN IF hits = {} THEN Len(order) + 1 ELSE Min(hits)
is_relevant_obj(o) == \E i \in 1..Len(ds_keys) : HasKey(o, ds_keys[i])

RECURSIVE safe_serialize(_, _, _, _)
RECURSIVE serialize_items(_, _, _, _, _)
RECURSIVE line_event(_, _, _, _, _)

\* What an untraced serialization leaves to the code that was traced: its
\* seen_ids. An exception in the trace function turns tracing off and
\* propagates into the traced frame.
AfterEvent(sz, r) ==
  [seen_ids |-> r.sz.seen_ids, traced |-> ~r.sz.raised, raised |-> r.sz.raised,
   events |-> sz.events + 1]

\* trace_lines on a line event of a comprehension or generator frame of
\* safe_serialize itself (their code names are not in the skip list): it
\* resets seen_ids and serializes that frame's locals, untraced.
line_event(env, items, depth, mode, sz) ==
  IF ~sz.traced \/ sz.raised THEN sz
  ELSE AfterEvent(sz, serialize_items(env, items, depth, Serializer(FALSE), mode))

\* The items of one container, each value at the given depth.
\*   "list"      [safe_serialize(item, ...) for item in ...]
\*   "dictcomp"  {k: safe_serialize(v, ...) for k, v in ... if isinstance(k, ...)}
\*   "dictloop"  the for loop over a dict of more than 50 entries
\*   "attrs"     the for loop over obj_dict, public attributes only
\*   "locals"    the for loop of trace_lines over frame.f_locals
\*   "none"      no loop: return str(obj)
\* Once an exception propagates, the remaining items are not visited.
Kept(it, mode) ==
  CASE mode \in {"list", "locals"} -> TRUE
    [] mode \in {"dictcomp", "dictloop"} -> it.key.k \in {"str", "int"}
    [] mode = "attrs" -> ~it.key.underscore

\* The line event of the jump back to the head of a comprehension.
AfterItem(env, items, mode, sz) ==
  IF mode \in {"list", "dictcomp"} THEN line_event(env, items, 0, "locals", sz) ELSE sz

ItemResult(env, items, mode, r) ==
  IF r.sz.raised THEN [outs |-> <<>>, sz |-> r.sz]
  ELSE [outs |-> IF ~Kept(items[1], mode) THEN <<>>
                 ELSE IF mode = "list" THEN <<r.out>>
                 ELSE <<EntryOut(items[1].key.name, items[1].key.n, r.out)>>,
        sz |-> AfterItem(env, items, mode, r.sz)]

Joined(front, back) ==
  IF back.sz.raised THEN [outs |-> <<>>, sz |-> back.sz]
  ELSE [outs |-> front.outs \o back.outs, sz |-> back.sz]

\* The front half of the items is done: the rest, from where it ended.
Halves(env, items, depth, mode, front) ==
  IF front.sz.raised THEN [outs |-> <<>>, sz |-> front.sz]
  ELSE Joined(front, serialize_items(env, SubSeq(items, (Len(items) \div 2) + 1, Len(items)),
                                     depth, front.sz, mode))

serialize_items(env, items, depth, sz, mode) ==
  CASE Len(items) = 0 \/ sz.raised -> [outs |-> <<>>, sz |-> sz]
    [] Len(items) = 1 /\ ~sz.raised ->
         ItemResult(env, items, mode,
                    IF Kept(items[1], mode) THEN safe_serialize(env, items[1].v, depth, sz)
                    ELSE [out |-> NoneOut, sz |-> sz])
    [] Len(items) > 1 /\ ~sz.raised ->
         Halves(env, items, depth, mode,
                serialize_items(env, SubSeq(items, 1, Len(items) \div 2), depth, sz, mode))

\* How safe_serialize goes through an object that it has not met before.
Mode(o) ==
  CASE o.kind \in {"list", "set"} -> "list"
    [] o.kind = "dict" -> IF Len(o.items) > size_cap THEN "dictloop" ELSE "dictcomp"
    [] o.kind = "obj" -> IF is_relevant_obj(o) THEN "attrs" ELSE "none"
\* The items it visits.
Contents(env, o) ==
  CASE Mode(o) = "list" ->
         Take(IF o.kind = "set" THEN SetOrder(env, o.items) ELSE o.items, size_cap)
    [] Mode(o) = "dictloop" -> DictPrefix(o.items, size_cap)
    [] Mode(o) \in {"dictcomp", "attrs"} -> o.items
    [] Mode(o) = "none" -> <<>>

\* The line events before the first item: the first line of a comprehension,
\* or the generator of the relevance check, one event per key tried, each
\* serializing obj_dict.
Entered(env, o, sz, e) ==
  CASE Mode(o) \in {"list", "dictcomp"} -> e
    [] Mode(o) = "dictloop" -> sz
    [] Mode(o) \in {"attrs", "none"} ->
         IF sz.traced /\ ~e.raised
         THEN [e EXCEPT !.events = sz.events + KeysTried(env, o)] ELSE e
Enter(env, o, sz) ==
  Entered(env, o, sz,
          IF o.kind = "obj" THEN line_event(env, o.items, 1, "dictcomp", sz)
          ELSE line_event(env, <<>>, 0, "locals", sz))

\* What safe_serialize returns once the items are serialized.
Finish(env, v, o, r) ==
  IF r.sz.raised THEN [out |-> NoneOut, sz |-> r.sz]
  ELSE CASE Mode(o) = "list" ->
              [out |-> Out("list", "", 0,
                           r.outs \o (IF Len(o.items) > size_cap
                                      THEN <<StrOut("<truncated>")>> ELSE <<>>)),
               sz |-> r.sz]
         [] Mode(o) = "dictloop" ->
              [out |-> Out("dict", "", 0,
                           r.outs \o (IF Len(r.outs) >= size_cap
                                      THEN <<EntryOut("<truncated>", 0, StrOut("..."))>>
                                      ELSE <<>>)),
               sz |-> r.sz]
         [] Mode(o) = "dictcomp" -> [out |-> Out("dict", "", 0, r.outs), sz |-> r.sz]
         [] Mode(o) = "attrs" ->
              \* result = {"type": type(obj).__name__}, then the attributes
              [out |-> Out("dict", "", 0, <<EntryOut("type", 0, StrOut(o.type))>> \o r.outs),
               sz |-> r.sz]
         [] Mode(o) = "none" ->
              \* return str(obj): the default repr holds the object's address
              IF o.str = "raises" THEN [out |-> NoneOut, sz |-> [r.sz EXCEPT !.raised = TRUE]]
              ELSE [out |-> Out("repr", o.type, env.base + v.n, <<>>), sz |-> r.sz]

safe_serialize(env, v, depth, sz) ==
  CASE sz.raised -> [out |-> NoneOut, sz |-> sz]
    [] ~sz.raised /\ depth > max_depth -> [out |-> StrOut("<max depth exceeded>"), sz |-> sz]
    [] ~sz.raised /\ depth <= max_depth /\ v.k = "none" -> [out |-> NoneOut, sz |-> sz]
    [] ~sz.raised /\ depth <= max_depth /\ IsPrimitive(v) -> [out |-> PrimOut(v), sz |-> sz]
    [] ~sz.raised /\ depth <= max_depth /\ v.k = "ref" /\ v.n \in sz.seen_ids ->
         \* for key in ['data', 'val', 'value', 'id', 'name', 'key']
         [out |-> circular_marker(env.heap[v.n],
                                  <<"data", "val", "value", "id", "name", "key">>),
          sz |-> sz]
    [] ~sz.raised /\ depth <= max_depth /\ v.k = "ref" /\ v.n \notin sz.seen_ids ->
         Finish(env, v, env.heap[v.n],
                serialize_items(env, Contents(env, env.heap[v.n]), depth + 1,
                                Enter(env, env.heap[v.n],
                                      [sz EXCEPT !.seen_ids = @ \cup {v.n}]),
                                Mode(env.heap[v.n])))

\* safe_serialize on a value that is itself serialized output, as the
\* finally block applies it to every variable of every entry (line 424):
\* the output trees are fresh lists, dicts and strs, so nothing is met twice.
RECURSIVE reserialize(_, _)
reserialize(o, depth) ==
  IF depth > max_depth THEN StrOut("<max depth exceeded>")
  ELSE IF o.tag = "list"
  THEN LET kept == Take(o.items, size_cap)
       IN Out("list", "", 0,
              [i \in 1..Len(kept) |-> reserialize(kept[i], depth + 1)]
              \o (IF Len(o.items) > size_cap THEN <<StrOut("<truncated>")>> ELSE <<>>))
  ELSE IF o.tag = "dict"
  THEN LET kept == Take(o.items, size_cap)
       IN Out("dict", "", 0,
              [i \in 1..Len(kept) |->
                 EntryOut(kept[i].name, kept[i].val, reserialize(kept[i].items[1], depth + 1))]
              \o (IF Len(o.items) > size_cap
                  THEN <<EntryOut("<truncated>", 0, StrOut("..."))>> ELSE <<>>))
  ELSE o

\* ---- the guest namespaces of the study: heap and module frame ----
Snapshots ==
  LET Val(k, n, s) == [k |-> k, n |-> n, s |-> s]
      Ref(i) == Val("ref", i, "")
      IntV(i) == Val("int", i, "")
      \* A key: a str (of an instance: whether the name starts with "_"), an
      \* int, or a tuple, which is hashable but not a str, int, float or bool.
      Key(k, name, n, underscore) == [k |-> k, name |-> name, n |-> n, underscore |-> underscore]
      Var(name, v) == [key |-> Key("str", name, 0, FALSE), v |-> v]
      Elems(vs) == [i \in 1..Len(vs) |-> [key |-> Key("none", "", 0, FALSE), v |-> vs[i]]]
      IntItems(n) == [i \in 1..n |-> [key |-> Key("int", "", i, FALSE), v |-> IntV(i)]]
      Object(type, kind, items, str) ==
        [type |-> type, kind |-> kind, items |-> items, str |-> str]
      Snapshot(name, heap, frame) == [name |-> name, heap |-> heap, frame |-> frame]
      Node(data, next) ==
        Object("Node", "obj", <<Var("data", IntV(data)), Var("next", next)>>, "repr")
      \* n nodes, each one's next the following node and the last one's the first.
      Ring(n) ==
        Snapshot("ring", [i \in 1..n |-> Node(i, Ref((i % n) + 1))], <<Var("h", Ref(1))>>)
      \* n nodes, the last one's next None.
      Chain(n) ==
        Snapshot("chain",
                 [i \in 1..n |-> Node(i, IF i < n THEN Ref(i + 1) ELSE Val("none", 0, ""))],
                 <<Var("h", Ref(1))>>)
      \* A list, tuple or set of the ints 1..n, or a dict of them keyed by themselves.
      Sized(type, n) ==
        Snapshot("sized",
                 <<Object(type, IF type = "tuple" THEN "list" ELSE type,
                          IF type = "dict" THEN IntItems(n)
                          ELSE Elems([i \in 1..n |-> IntV(i)]), "repr")>>,
                 <<Var("c", Ref(1))>>)
      \* The same dict with one more entry, in front, whose key is a tuple.
      TupleKeyed(n) ==
        Snapshot("tuplekeyed",
                 <<Object("dict", "dict",
                          <<[key |-> Key("tuple", "", 0, FALSE), v |-> IntV(0)]>>
                          \o IntItems(n), "repr")>>,
                 <<Var("c", Ref(1))>>)
      CapSizes == {0, 1} \cup ((size_cap - 1)..(size_cap + MaxOver))
  IN {Ring(n) : n \in 1..MaxRing} \cup {Chain(2)}
     \cup {Sized(type, n) : type \in {"list", "tuple", "set", "dict"}, n \in CapSizes}
     \cup {TupleKeyed(n) : n \in CapSizes}
     \cup {
       \* a = []; a.append(a)
       Snapshot("selflist", <<Object("list", "list", Elems(<<Ref(1)>>), "repr")>>,
                <<Var("a", Ref(1))>>),
       \* d = {}; d["s"] = d
       Snapshot("selfdict", <<Object("dict", "dict", <<Var("s", Ref(1))>>, "repr")>>,
                <<Var("d", Ref(1))>>),
       \* p.data = 1; p._me = p
       Snapshot("private",
                <<Object("P", "obj", <<Var("data", IntV(1)),
                                       [key |-> Key("str", "_me", 0, TRUE), v |-> Ref(1)]>>,
                         "repr")>>,
                <<Var("p", Ref(1))>>),
       \* a = [1]; b = a
       Snapshot("shared", <<Object("list", "list", Elems(<<IntV(1)>>), "repr")>>,
                <<Var("a", Ref(1)), Var("b", Ref(1))>>),
       \* class X with a __str__ that raises; x = X(); y = 1
       Snapshot("raises", <<Object("X", "obj", <<>>, "raises")>>,
                <<Var("x", Ref(1)), Var("y", IntV(1))>>),
       Snapshot("raises", <<Object("X", "obj", <<>>, "raises")>>,
                <<Var("y", IntV(1)), Var("x", Ref(1))>>),
       \* class X: pass; x = X(); s = {"a", "b"}
       Snapshot("plain", <<Object("X", "obj", <<>>, "repr"),
                           Object("set", "set",
                                  Elems(<<Val("str", 0, "a"), Val("str", 0, "b")>>), "repr")>>,
                <<Var("x", Ref(1)), Var("s", Ref(2))>>),
       \* x = 1; y = "a"
       Snapshot("scalars", <<>>, <<Var("x", IntV(1)), Var("y", Val("str", 0, "a"))>>)
     }

\* ---- the child processes of the study: two runs of the same guest ----
Runs == {1, 2}
\* The runs follow each other: a run starts when the one before has emitted.
Started(p) == \A q \in Runs : q < p => procs[q].stage = "done"
Env(p) == [heap |-> snapshot.heap, hashseed |-> procs[p].hashseed, base |-> procs[p].base]

\* The guest has 1..MaxEvents lines, the same in every run. What a child
\* process gets from the system it starts on: the seed of str hashes (hash
\* randomization) and where its objects are allocated.
InitSer ==
  /\ PipelineIdle
  /\ TracingIdle
  /\ ServingIdle
  /\ StudiesIdle("serializer")
  /\ snapshot \in Snapshots
  /\ procs \in {[p \in Runs |-> [hashseed |-> e[p].hashseed, base |-> e[p].base,
                                 lines |-> n, stage |-> "tracing",
                                 trace_data |-> <<>>, payload |-> <<>>]] :
                  e \in [Runs -> {[hashseed |-> 0, base |-> 100],
                                  [hashseed |-> 1, base |-> 200]}],
                  n \in 1..MaxEvents}

\* trace_lines on the line event of a guest line (lines 263-326): the
\* snapshot goes into the previous entry, then the new entry is appended.
\* safe_serialize is not guarded here: what it raises leaves the trace
\* function and propagates into the guest.
LookBack(p) ==
  /\ Started(p)
  /\ procs[p].stage = "tracing"
  /\ Len(procs[p].trace_data) < procs[p].lines
  /\ LET r == serialize_items(Env(p), snapshot.frame, 0, Serializer(FALSE), "locals")
         td == procs[p].trace_data
         filled == IF td = <<>> THEN td ELSE [td EXCEPT ![Len(td)].variables = r.outs]
     IN procs' = [procs EXCEPT ![p] =
                    IF r.sz.raised THEN [@ EXCEPT !.stage = "raised"]
                    ELSE [@ EXCEPT !.trace_data =
                            Append(filled, [event |-> "line", func |-> "<module>",
                                            variables |-> <<>>])]]
  /\ UNCHANGED <<pipeline, tracing, serving, snapshot, source, classes, submitted, reply, context>>

\* except Exception as e: trace_data.append({"event": "exception", ...})
GuestAborted(p) ==
  /\ Started(p)
  /\ procs[p].stage = "raised"
  /\ procs' = [procs EXCEPT ![p].stage = "finally",
                            ![p].trace_data =
                               Append(@, [event |-> "exception", func |-> "",
                                          variables |-> <<>>])]
  /\ UNCHANGED <<pipeline, tracing, serving, snapshot, source, classes, submitted, reply, context>>

\* The loop of the final capture (lines 366-385): try: final_vars[key] =
\* safe_serialize(value) / except: pass, with seen_ids reset once before it.
RECURSIVE final_vars(_, _, _)
final_vars(env, items, sz) ==
  IF items = <<>> THEN [outs |-> <<>>, sz |-> sz]
  ELSE LET r == safe_serialize(env, Head(items).v, 0, sz)
           rest == final_vars(env, Tail(items), [r.sz EXCEPT !.raised = FALSE])
       IN [outs |-> (IF r.sz.raised THEN <<>>
                     ELSE <<EntryOut(Head(items).key.name, Head(items).key.n, r.out)>>)
                    \o rest.outs,
           sz |-> rest.sz]

\* The guest has run its last line: the final capture (lines 352-389), with
\* sys.settrace still on. Every line event of a helper frame appends an
\* entry; the look-back of the first one leaves the helper frame's own
\* locals (".0", the iterator) in the guest's last entry; final_vars goes
\* to the last entry there is.
CaptureFinalVars(p) ==
  /\ Started(p)
  /\ procs[p].stage = "tracing"
  /\ Len(procs[p].trace_data) = procs[p].lines
  /\ LET td == procs[p].trace_data
         r == final_vars(Env(p), snapshot.frame, Serializer(TRUE))
         traced == IF r.sz.events = 0 THEN td
                   ELSE [td EXCEPT ![Len(td)].variables =
                           <<EntryOut(".0", 0, Out("repr", "iterator", procs[p].base, <<>>))>>]
                        \o [i \in 1..r.sz.events |->
                              [event |-> "line", func |-> "<helper>", variables |-> <<>>]]
         captured == IF r.outs = <<>> THEN traced
                     ELSE [traced EXCEPT ![Len(traced)].variables = r.outs]
     IN procs' = [procs EXCEPT ![p].stage = "finally", ![p].trace_data = captured]
  /\ UNCHANGED <<pipeline, tracing, serving, snapshot, source, classes, submitted, reply, context>>

\* finally: safe_trace, every variable through safe_serialize once more,
\* then print(json.dumps(result, default=str)).
EmitTrace(p) ==
  /\ Started(p)
  /\ procs[p].stage = "finally"
  /\ procs' = [procs EXCEPT ![p].stage = "done",
                 ![p].payload =
                    [i \in 1..Len(procs[p].trace_data) |->
                       [procs[p].trace_data[i] EXCEPT !.variables =
                          [j \in 1..Len(@) |->
                             EntryOut(@[j].name, @[j].val,
                                      reserialize(@[j].items[1], 0))]]]]
  /\ UNCHANGED <<pipeline, tracing, serving, snapshot, source, classes, submitted, reply, context>>

NextSer ==
  \/ \E p \in Runs : LookBack(p)
  \/ \E p \in Runs : GuestAborted(p)
  \/ \E p \in Runs : CaptureFinalVars(p)
  \/ \E p \in Runs : EmitTrace(p)

SpecSer == InitSer /\ [][NextSer]_vars

\* ---- what was serialized, read off a process ----
\* The value the module frame holds under a name.
FrameValue(name) ==
  snapshot.frame[CHOOSE i \in 1..Len(snapshot.frame) : snapshot.frame[i].key.name = name].v
\* The guest variables in the entries of a trace: <<entry, variable>> positions.
Captured(td) ==
  {ij \in (1..Len(td)) \X (1..Len(snapshot.frame)) :
     /\ ij[2] <= Len(td[ij[1]].variables)
     /\ \E i \in 1..Len(snapshot.frame) :
          snapshot.frame[i].key.name = td[ij[1]].variables[ij[2]].name}
\* The value serialized on its own: by a serializer that has seen nothing.
Fresh(env, v) == safe_serialize(env, v, 0, Serializer(FALSE))

\* C11: serializing a graph with a reference cycle terminates, and the
\* cyclic reference shows in the output as a type-name marker: every
\* captured variable that leads into a cycle has one, in the trace and in
\* the payload.
C11_CycleShowsAsTypeName ==
  LET Refs(i) ==
        {snapshot.heap[i].items[j].v.n :
           j \in {k \in 1..Len(snapshot.heap[i].items) : snapshot.heap[i].items[k].v.k = "ref"}}
      RECURSIVE Closure(_)
      Closure(S) ==
        IF S \cup UNION {Refs(i) : i \in S} = S THEN S
        ELSE Closure(S \cup UNION {Refs(i) : i \in S})
      Cyclic(v) == v.k = "ref" /\ \E i \in Closure({v.n}) : i \in Closure(Refs(i))
      RECURSIVE Tags(_)
      Tags(o) == {o.tag} \cup UNION {Tags(o.items[i]) : i \in 1..Len(o.items)}
      Marked(td) ==
        \A ij \in Captured(td) :
          Cyclic(FrameValue(td[ij[1]].variables[ij[2]].name))
            => "typename" \in Tags(td[ij[1]].variables[ij[2]])
  IN \A p \in Runs : Marked(procs[p].trace_data) /\ Marked(procs[p].payload)

\* C12: in one snapshot, a value's output does not depend on the values
\* serialized before it: every variable the trace function captured is
\* what serializing its value alone gives.
C12_OutputIndependentOfOrder ==
  \A p \in Runs :
    \A ij \in Captured(procs[p].trace_data) :
      LET e == procs[p].trace_data[ij[1]].variables[ij[2]]
      IN procs[p].trace_data[ij[1]].func = "<module>"
           => /\ ~Fresh(Env(p), FrameValue(e.name)).sz.raised
              /\ e.items[1] = Fresh(Env(p), FrameValue(e.name)).out

\* C13: a value whose serialization fails is replaced by a type marker and
\* nothing else is lost: the guest is not aborted, and every snapshot taken
\* holds all the variables, the failing one as a type-name marker.
C13_FailureIsLocal ==
  \A p \in Runs :
    /\ procs[p].stage # "raised"
    /\ \A i \in 1..Len(procs[p].trace_data) : procs[p].trace_data[i].event # "exception"
    /\ \A ij \in Captured(procs[p].trace_data) :
         LET vs == procs[p].trace_data[ij[1]].variables
         IN /\ {vs[j].name : j \in 1..Len(vs)}
                 = {snapshot.frame[i].key.name : i \in 1..Len(snapshot.frame)}
            /\ Fresh(Env(p), FrameValue(vs[ij[2]].name)).sz.raised
                 => vs[ij[2]].items[1].tag = "typename"

\* C14: two runs of the same source with the same inputs emit the same trace.
C14_RunsAgree ==
  \A p, q \in Runs :
    procs[p].stage = "done" /\ procs[q].stage = "done"
      => procs[p].payload = procs[q].payload

\* C20: a list, tuple, set or dict of more than 50 elements is serialized
\* as its first 50 elements and one truncation marker after them; one of
\* 50 elements or fewer as all its elements and no marker.
C20_SizeCap ==
  \A p \in Runs :
    \A ij \in Captured(procs[p].trace_data) :
      LET e == procs[p].trace_data[ij[1]].variables[ij[2]]
          v == FrameValue(e.name)
          o == snapshot.heap[v.n]
          elems == IF o.kind = "set" THEN SetOrder(Env(p), o.items) ELSE o.items
          outs == e.items[1].items
          shown == IF Len(elems) > size_cap THEN size_cap ELSE Len(elems)
          IsTruncation(x) ==
            x = StrOut("<truncated>") \/ x = EntryOut("<truncated>", 0, StrOut("..."))
          ElementOut(it) ==
            IF o.kind = "dict" THEN EntryOut(it.key.name, it.key.n, PrimOut(it.v))
            ELSE PrimOut(it.v)
      IN (v.k = "ref" /\ snapshot.heap[v.n].kind \in {"list", "set", "dict"}) =>
           /\ Len(outs) = shown + (IF Len(elems) > size_cap THEN 1 ELSE 0)
           /\ \A k \in 1..shown :
                /\ k <= Len(outs)
                /\ IsPrimitive(elems[k].v) => outs[k] = ElementOut(elems[k])
           /\ \A k \in 1..Len(outs) :
                IsTruncation(outs[k]) <=> (Len(elems) > size_cap /\ k = size_cap + 1)

(***************************************************************************)
(* The behavior classifier: BehaviorAnalyzer on one method definition.     *)
(*                                                                         *)
(* A method name is its text with the hint words that occur in it (the     *)
(* code tests `word in name_lower`) and whether it starts with "get". A    *)
(* statement is [kind, a, call, via, body, orelse]: kind is the ast node   *)
(* type, a the detail the analyzer looks at (the assigned attribute, the   *)
(* shape of a test, the returned expression), call the function called in  *)
(* the statement's expression, via whether it is called as an attribute    *)
(* (x.f()) or by name (f()).                                               *)
(***************************************************************************)
Methods ==
  LET Name(text, words, get) == [text |-> text, words |-> words, get |-> get]
      Stmt(kind, a, call, via, body, orelse) ==
        [kind |-> kind, a |-> a, call |-> call, via |-> via, body |-> body,
         orelse |-> orelse]
      Simple(kind, a, call, via) == Stmt(kind, a, call, via, <<>>, <<>>)
      append == Simple("expr", "", "append", "attr")
      new_node == Simple("assign", "name", "Node", "id")
      cur == Simple("assign", "name", "", "")
      set_next == Simple("assign", "next", "", "")
      set_head == Simple("assign", "head", "", "")
      walk(body) == Stmt("while", "tail", "", "", body, <<>>)
  IN [name : {Name("push", {"push"}, FALSE), Name("zzz", {}, FALSE),
              Name("enqueue", {}, FALSE), Name("add", {"add"}, FALSE),
              Name("append_item", {"append", "end"}, FALSE),
              Name("insertLast", {"insert", "last"}, FALSE),
              Name("remove", {"remove"}, FALSE), Name("show", {"show"}, FALSE),
              Name("get_x", {}, TRUE), Name("size", {"size"}, FALSE),
              Name("__init__", {}, FALSE), Name("maximum", {"max"}, FALSE)},
      body : {
        \* self.items.append(x)
        <<append>>,
        \* return self.items.append(x)
        <<Simple("return", "", "append", "attr")>>,
        \* r = self.items.append(x)
        <<Simple("assign", "name", "append", "attr")>>,
        \* try: self.items.append(x) / except Exception: pass
        <<Stmt("try", "", "", "", <<append>>, <<>>)>>,
        \* with self.lock: self.items.append(x)
        <<Stmt("with", "", "", "", <<append>>, <<>>)>>,
        \* if x: self.items.append(x)
        <<Stmt("if", "", "", "", <<append>>, <<>>)>>,
        \* for i in x: self.items.append(i)
        <<Stmt("for", "", "", "", <<append>>, <<>>)>>,
        \* self.items.append(x) if x else None
        <<Simple("ifexp", "", "append", "attr")>>,
        \* n = Node(x); cur = self.head; while cur.next != None: cur = cur.next
        \* cur.next = n
        <<new_node, cur, walk(<<cur>>), set_next>>,
        \* n = Node(x); n.next = self.head; self.head = n
        <<new_node, set_next, set_head>>,
        \* n = Node(x); while cur.next != None: if cur.next.data == x: n.next =
        \* cur.next; cur.next = n -- and self.head = self.head
        <<new_node, cur, walk(<<Stmt("if", "target", "", "", <<set_next, set_next>>, <<>>),
                               cur>>), set_head>>,
        \* while cur.next != None: if cur.data == x: cur.next = cur.next.next
        <<cur, walk(<<Stmt("if", "target", "", "", <<set_next>>, <<>>), cur>>)>>,
        \* self.items.pop()
        <<Simple("expr", "", "pop", "attr")>>,
        \* print(self.items)
        <<Simple("expr", "", "print", "id")>>,
        \* return len(self.items)
        <<Simple("return", "", "len", "id")>>,
        \* return self.items[-1]
        <<Simple("return", "last", "", "")>>,
        \* pass
        <<Simple("pass", "", "", "")>>}]

\* _get_method_name_hints
method_name_hints(name) ==
  [is_insert |-> name.words \cap {"insert", "add", "push", "append"} # {},
   is_delete |-> name.words \cap {"delete", "remove", "pop", "del"} # {},
   is_traverse |-> name.words \cap {"traverse", "print", "display", "show", "list"} # {},
   is_front |-> name.words \cap {"front", "first", "head", "begin"} # {},
   is_last |-> name.words \cap {"last", "end", "tail", "back"} # {},
   is_getter |-> name.get \/ name.text \in {"size", "length", "count", "empty"},
   is_init |-> name.text = "__init__"]

\* _analyze_statements with _analyze_assignment: the flags the statements
\* set, as the set of the flags that are True. Statements of other kinds
\* (try, with, an expression that is no call) are not looked into.
RECURSIVE analyze_statements(_, _)
analyze_statements(statements, flags) ==
  IF statements = <<>> THEN flags
  ELSE LET stmt == Head(statements)
           set ==
             CASE stmt.kind \in {"while", "for"} ->
                    {"has_loop", "traverses_list"}
                    \cup (IF stmt.kind = "while" /\ stmt.a = "tail"
                          THEN {"traverses_to_end"} ELSE {})
               [] stmt.kind = "if" ->
                    (IF stmt.a = "empty" THEN {"checks_empty_list"} ELSE {})
                    \cup (IF stmt.a = "target" THEN {"finds_target"} ELSE {})
               [] stmt.kind = "assign" ->
                    CASE stmt.a = "head" -> {"modifies_head"}
                      [] stmt.a = "count" -> {"modifies_count"}
                      [] stmt.a = "next" -> {"modifies_next_pointers"}
                      [] stmt.a \in {"name", "node"} ->
                           IF \/ stmt.via = "id" /\ stmt.call \in {"DataNode", "Node"}
                              \/ stmt.via = "attr" /\ stmt.a = "node"
                           THEN {"creates_new_node"} ELSE {}
                      [] OTHER -> {}
               [] stmt.kind = "expr" ->
                    CASE stmt.via = "attr" /\ stmt.call = "append" -> {"uses_append"}
                      [] stmt.via = "attr" /\ stmt.call = "pop" ->
                           {"uses_pop"} \cup (IF stmt.a = "0" THEN {"uses_pop_0"} ELSE {})
                      [] stmt.via = "attr" /\ stmt.call = "popleft" -> {"uses_popleft"}
                      [] stmt.via = "attr" /\ stmt.call = "add_vertex" -> {"is_graph_add_vertex"}
                      [] stmt.via = "attr" /\ stmt.call = "add_edge" -> {"is_graph_add_edge"}
                      [] stmt.via = "id" /\ stmt.call = "print" -> {"has_print"}
                      [] OTHER -> {}
               [] stmt.kind = "return" ->
                    (IF stmt.a = "size" \/ (stmt.via = "id" /\ stmt.call = "len")
                     THEN {"returns_size"} ELSE {})
                    \cup (IF stmt.a = "last" THEN {"uses_peek_back"} ELSE {})
                    \cup (IF stmt.a = "first" THEN {"uses_peek_front"} ELSE {})
               [] OTHER -> {}
           inner == IF stmt.kind \in {"while", "for", "if"}
                    THEN stmt.body \o stmt.orelse ELSE <<>>
       IN analyze_statements(inner \o Tail(statements), flags \cup set)

\* _classify_behavior_by_logic: the second definition of that name in the
\* class (line 342), which is the one the class ends up with.
classify_behavior_by_logic(name, flags) ==
  LET hints == method_name_hints(name)
      has(flag) == flag \in flags
      in_name(word) == word \in name.words
  IN IF hints.is_init THEN "constructor"
     ELSE IF has("uses_append") THEN "push"
     ELSE IF has("uses_pop") THEN "pop"
     ELSE IF has("uses_peek") THEN "stackTop"
     ELSE IF hints.is_getter /\ (has("returns_size") \/ in_name("size")) THEN "size"
     ELSE IF hints.is_getter /\ (has("checks_empty") \/ in_name("empty")) THEN "is_empty"
     ELSE IF has("has_print") /\ ~has("creates_new_node") THEN "printStack"
     ELSE IF has("uses_pop_0") \/ has("uses_popleft") THEN "dequeue"
     ELSE IF has("uses_peek_front") THEN "front"
     ELSE IF has("uses_peek_back") THEN "back"
     ELSE IF hints.is_insert THEN "insert"
     ELSE IF hints.is_delete THEN "delete"
     ELSE IF hints.is_traverse
          THEN (IF in_name("pre") THEN "preorder"
                ELSE IF in_name("post") THEN "postorder" ELSE "inorder")
     ELSE IF in_name("min") THEN "findMin"
     ELSE IF in_name("max") THEN "findMax"
     ELSE IF has("is_graph_add_vertex") \/ in_name("add_vertex") THEN "add_vertex"
     ELSE IF has("is_graph_add_edge") \/ in_name("add_edge") THEN "add_edge"
     ELSE IF in_name("bfs") THEN "bfs"
     ELSE IF in_name("dfs") THEN "dfs"
     ELSE IF /\ (has("has_print") /\ has("traverses_list")) \/ hints.is_traverse
             /\ ~has("modifies_head") /\ ~has("creates_new_node") THEN "traverse"
     ELSE IF /\ has("creates_new_node") /\ has("has_loop")
             /\ ~has("modifies_head") /\ has("modifies_next_pointers") THEN "insert_last"
     ELSE IF has("creates_new_node") /\ has("modifies_head") /\ ~has("has_loop")
          THEN "insert_front"
     ELSE IF /\ has("creates_new_node") /\ has("has_loop")
             /\ has("finds_target") /\ has("modifies_next_pointers") THEN "insert_before"
     ELSE IF has("creates_new_node") /\ hints.is_insert
          THEN (IF hints.is_front THEN "insert_front"
                ELSE IF hints.is_last THEN "insert_last" ELSE "insert_front")
     ELSE IF \/ /\ has("finds_target") /\ ~has("creates_new_node")
                /\ has("modifies_head") \/ has("modifies_next_pointers")
             \/ hints.is_delete THEN "delete"
     ELSE IF \/ hints.is_getter
             \/ /\ ~has("creates_new_node") /\ ~has("modifies_head")
                /\ ~has("modifies_count") /\ ~has("has_loop") THEN "getter"
     ELSE "unknown"

\* _analyze_method_behavior_from_ast
analyze_method_behavior_from_ast(method) ==
  [name |-> method.name.text,
   flags |-> analyze_statements(method.body, {}),
   behavior_type |-> classify_behavior_by_logic(method.name,
                                                analyze_statements(method.body, {}))]

InitCls ==
  /\ PipelineIdle
  /\ TracingIdle
  /\ ServingIdle
  /\ StudiesIdle("classifier")
  /\ source \in {<<m>> : m \in Methods}
  /\ classes = <<>>

\* parse_class_methods: self.context["classes"][class_name]["methods"][item.name]
\* = method_info, for the method of the class.
parse_class_methods ==
  /\ classes = <<>>
  /\ classes' = <<analyze_method_behavior_from_ast(source[1])>>
  /\ UNCHANGED <<pipeline, tracing, serving, snapshot, procs, source, submitted,
               reply, context>>

NextCls == parse_class_methods

SpecCls == InitCls /\ [][NextCls]_vars

\* C15: a method other than the constructor whose body only calls append
\* on the container is classified push or enqueue, in whatever form the
\* call is written, and under every other name the same body gets the
\* same classification.
C15_AppendOnlyIsPush ==
  LET RECURSIVE Calls(_)
      Calls(stmts) ==
        IF stmts = <<>> THEN {}
        ELSE (IF Head(stmts).call = "" THEN {} ELSE {Head(stmts).call})
             \cup Calls(Head(stmts).body \o Head(stmts).orelse \o Tail(stmts))
  IN (classes # <<>> /\ source[1].name.text # "__init__"
      /\ Calls(source[1].body) = {"append"})
       => /\ classes[1].behavior_type \in {"push", "enqueue"}
          /\ \A m \in Methods :
               (m.body = source[1].body /\ m.name.text # "__init__")
                 => analyze_method_behavior_from_ast(m).behavior_type
                      = classes[1].behavior_type

\* C16: the name decides only where structure does not: when the body of a
\* method other than the constructor matches a structural rule (a container
\* primitive; a new node with a loop and no head assignment; a new node with
\* a head assignment and no loop; a loop with a target search and a pointer
\* assignment), the same body gets the same behavior_type under every other
\* name, and the second of these rules gives insert_last.
C16_NameOnlyBreaksTies ==
  LET has(flag) == flag \in classes[1].flags
      at_end == /\ has("creates_new_node") /\ has("has_loop")
                /\ ~has("modifies_head") /\ has("modifies_next_pointers")
      structural ==
        \/ has("uses_append") \/ has("uses_pop") \/ has("uses_popleft")
        \/ at_end
        \/ has("creates_new_node") /\ has("modifies_head") /\ ~has("has_loop")
        \/ has("has_loop") /\ has("finds_target") /\ has("modifies_next_pointers")
  IN (classes # <<>> /\ source[1].name.text # "__init__" /\ structural)
       => /\ at_end => classes[1].behavior_type = "insert_last"
          /\ \A m \in Methods :
               (m.body = source[1].body /\ m.name.text # "__init__")
                 => analyze_method_behavior_from_ast(m).behavior_type
                      = classes[1].behavior_type

\* ---------------------------------------------------------------------
\* Syntax-error study: a request whose source does not parse, through the
\* simulator chosen for its dataType (simulator parsing, or direct
\* execution in a child process) and back through the controller.
\* A message is a sequence of lines, a line a sequence of pieces of text.
\* ---------------------------------------------------------------------

\* ast.parse(code) / compile(code, filename, "exec") on a source that does
\* not parse: the SyntaxError the parser raises.  None is 0 for lineno and
\* offset, <<>> for text and "" for filename.  The parser reports the
\* offending line with its newline; a source holding a null byte is
\* rejected before any line is read, without location.
ast_parse(program, filename) ==
  LET located(type, msg, offset) ==
        [type |-> type, msg |-> msg, lineno |-> program.lineno,
         offset |-> offset, text |-> program.line \o <<"\n">>,
         filename |-> filename]
  IN CASE program.fault = "paren" ->
            located("SyntaxError", "'(' was never closed", Len(program.line))
       [] program.fault = "colon" ->
            located("SyntaxError", "expected ':'", Len(program.line) + 1)
       [] program.fault = "indent" ->
            located("IndentationError", "unexpected indent", 2)
       [] OTHER ->
            [type |-> "SyntaxError",
             msg |-> "source code string cannot contain null bytes",
             lineno |-> 0, offset |-> 0, text |-> <<>>, filename |-> ""]

\* ErrorHandler._create_python_style_error: the file line, the code line
\* behind four spaces, the pointer line, the error line.
create_python_style_error(error_type, error_message, line_number, code_line, offset, filename) ==
  LET RECURSIVE rstrip(_)
      rstrip(s) == IF s # <<>> /\ s[Len(s)] \in {" ", "\n", "\t"}
                   THEN rstrip(SubSeq(s, 1, Len(s) - 1)) ELSE s
      spaces(n) == [i \in 1..n |-> " "]
  IN <<  <<"  File \"", IF filename # "" THEN filename ELSE "<string>",
           "\", line ", ToString(line_number)>>  >>
     \o << spaces(4) \o (IF code_line # <<>> THEN rstrip(code_line) ELSE <<>>) >>
     \o (IF offset > 0 THEN << spaces(offset - 1 + 4) \o <<"^">> >>
         ELSE IF code_line # <<>>
              THEN << spaces(Len(rstrip(code_line)) + 4) \o <<"^">> >>
              ELSE <<>>)
     \o << error_type \o <<": ">> \o error_message >>

\* graph/directed_graph_simulator.py is not part of the source tree: its
\* execute_code may take either path.
DirectedGraphSimulator == {"simulation", "direct"}

\* The path each simulator's execute_code takes for a source: has_input
\* (reads_input), has_fstring (formats) and is_simulation (simulates) are
\* substring tests on the code.
\*   StackSimulator 32-39, QueueSimulator 31-41,
\*   SinglyLinkedListSimulator 42-50; DoublyLinkedListSimulator,
\*   BinarySearchTreeSimulator and UndirectedGraphSimulator always hand the
\*   code to the direct executor.
Routes(dataType, program) ==
  LET in(s) == s \in program.mentions
      reads_input == in("input(")
      formats == in("f\"") \/ in("f'")
      path(simulates) ==
        IF reads_input \/ formats \/ ~simulates
        THEN {"direct"} ELSE {"simulation"}
  IN CASE dataType = "stack" ->
            path(in("class ") /\ (in("Stack") \/ in("stack")) /\ ~reads_input)
       [] dataType = "queue" ->
            path(in("class ArrayQueue") \/ (in("ArrayQueue") /\ ~reads_input))
       [] dataType = "singlylinkedlist" ->
            path(in("class LinkedList:") \/ (in("LinkedList") /\ ~reads_input))
       [] dataType = "directedgraph" -> DirectedGraphSimulator
       [] OTHER -> {"direct"}

InitSyn ==
  LET DataTypes == {"stack", "singlylinkedlist", "doublylinkedlist",
                    "binarysearchtree", "undirectedgraph", "directedgraph",
                    "queue"}
      classes_defined == {"class ", "Stack", "LinkedList", "class LinkedList:",
                          "ArrayQueue", "class ArrayQueue"}
      Mentions == {{}, {"LinkedList"}, {"class ", "Stack"}, classes_defined,
                   classes_defined \cup {"input("},
                   classes_defined \cup {"f\""}}
      Faults ==
        {[fault |-> "paren", lineno |-> 2, line |-> <<"f", "(">>],
         [fault |-> "colon", lineno |-> 1, line |-> <<"i", "f", " ", "x">>],
         [fault |-> "indent", lineno |-> 2, line |-> <<" ", " ", "y", " ">>],
         [fault |-> "nul", lineno |-> 1, line |-> <<"x", "\\0">>]}
  IN /\ PipelineIdle
     /\ TracingIdle
     /\ ServingIdle
     /\ StudiesIdle("syntax")
     /\ submitted \in
          {[dataType |-> d, mentions |-> m, fault |-> f.fault,
            lineno |-> f.lineno, line |-> f.line] :
             d \in DataTypes, m \in Mentions, f \in Faults}
     /\ reply = [stage |-> "accepted", steps |-> <<>>, status |-> "",
                 totalSteps |-> 0, errorMessage |-> <<>>]

\* execute_code on the simulation path: ASTParser.parse_code raises the
\* ValueError carrying python_style_message, and the simulator's handler
\* returns one error step for it.
execute_code_simulation ==
  LET e == ast_parse(submitted, "<unknown>")
      str_e == IF e.lineno > 0
               THEN <<e.msg, " (", e.filename, ", line ", ToString(e.lineno), ")">>
               ELSE <<e.msg>>
      python_style_message ==
        create_python_style_error(<<e.type>>, str_e, e.lineno, e.text,
                                   e.offset, e.filename)
  IN /\ reply.stage = "accepted"
     /\ "simulation" \in Routes(submitted.dataType, submitted)
     /\ reply' = [reply EXCEPT
          !.stage = "executed",
          !.steps = <<[line |-> e.lineno,
                       code |-> IF e.lineno > 0 THEN submitted.line ELSE <<>>,
                       error |-> python_style_message]>>]
     /\ UNCHANGED <<pipeline, tracing, serving, snapshot, procs, source,
                    classes, submitted, context>>

\* DirectCodeExecutor.execute: the child's compile of the source raises,
\* the wrapper records an exception event holding str(e), and
\* _create_steps_from_result turns it into one step on line 1 with no code.
\* A source holding a null byte never reaches the child: its steps are the
\* first line and the executor's own error.
execute_code_direct ==
  LET e == ast_parse(submitted, "<string>")
      str_e == <<e.msg, " (", e.filename, ", line ", ToString(e.lineno), ")">>
  IN /\ reply.stage = "accepted"
     /\ "direct" \in Routes(submitted.dataType, submitted)
     /\ reply' = [reply EXCEPT
          !.stage = "executed",
          !.steps =
             IF submitted.fault = "nul"
             THEN <<[line |-> 1, code |-> submitted.line, error |-> <<>>],
                    [line |-> 1, code |-> submitted.line,
                     error |-> <<<<"Execution error: ", "embedded null byte">>>>]>>
             ELSE <<[line |-> 1, code |-> <<>>, error |-> <<str_e>>]>>]
     /\ UNCHANGED <<pipeline, tracing, serving, snapshot, procs, source,
                    classes, submitted, context>>

\* run_code_guest after execute_code: the first step with an error makes the
\* response create_error_response(..., error_message, created_at, steps),
\* whose totalSteps is len(steps).
run_code_guest ==
  LET errors == {i \in 1..Len(reply.steps) : reply.steps[i].error # <<>>}
      first == CHOOSE i \in errors : \A j \in errors : i <= j
  IN /\ reply.stage = "executed"
     /\ reply' = [reply EXCEPT
          !.stage = "responded",
          !.status = IF errors # {} THEN "error" ELSE "success",
          !.totalSteps = Len(reply.steps),
          !.errorMessage = IF errors # {} THEN reply.steps[first].error ELSE <<>>]
     /\ UNCHANGED <<pipeline, tracing, serving, snapshot, procs, source,
                    classes, submitted, context>>

NextSyn ==
  \/ execute_code_simulation
  \/ execute_code_direct
  \/ run_code_guest

SpecSyn == InitSyn /\ [][NextSyn]_vars

\* C17: for any source that fails to parse, the reported error message
\* contains the text of the offending source line (up to trailing white
\* space) and, on the line below it, a caret under the column at which the
\* parser reported the error.
C17_MessageShowsLineAndCaret ==
  LET RECURSIVE stripped(_)
      stripped(s) == IF s # <<>> /\ s[Len(s)] \in {" ", "\n", "\t"}
                     THEN stripped(SubSeq(s, 1, Len(s) - 1)) ELSE s
      blank(n) == [i \in 1..n |-> " "]
      message == reply.errorMessage
      column == ast_parse(submitted, "<string>").offset
  IN reply.stage = "responded"
       => \E i \in 1..(Len(message) - 1), margin \in 0..4 :
            /\ message[i] = blank(margin) \o stripped(submitted.line)
            /\ column > 0
            /\ message[i + 1] = blank(margin + column - 1) \o <<"^">>

\* C18: when the submitted source has a syntax error, the response has
\* status error, an empty steps list, and totalSteps equal to 0.
C18_SyntaxErrorHasNoSteps ==
  reply.stage = "responded"
    => /\ reply.status = "error"
       /\ reply.steps = <<>>
       /\ reply.totalSteps = 0

\* C19: for every supported data type, a source ending in an unterminated
\* parenthesis yields status error with a message in Python traceback style
\* holding `File "`, `SyntaxError` and a `^` pointer, on the simulator
\* parsing path and on the direct execution path alike.
C19_TracebackStyleOnEveryPath ==
  LET pieces == UNION {{reply.errorMessage[i][j] :
                          j \in 1..Len(reply.errorMessage[i])} :
                       i \in 1..Len(reply.errorMessage)}
  IN (reply.stage = "responded" /\ submitted.fault = "paren")
       => /\ reply.status = "error"
          /\ "  File \"" \in pieces
          /\ "SyntaxError" \in pieces
          /\ "^" \in pieces

\* ---------------------------------------------------------------------
\* Operations study: the simulated data structures kept in the simulators'
\* context dictionary and the node managers' operations on them.  One
\* structure at a time is under study (context.kind).  A node id node_<i>
\* is the number i + 1, None is 0.
\* ---------------------------------------------------------------------

MaxNodes == 3

\* The walk shared by insert_before and delete_node: from current, the node
\* whose next is named target_name; 0 when the chain ends first; -1 when
\* the loop never ends (the walk is back at a node it has left, and nothing
\* has changed).
RECURSIVE find_before(_, _, _, _)
find_before(nodes, current, target_name, left) ==
  IF current = 0 THEN 0
  ELSE IF current \in left THEN -1
  ELSE IF nodes[current].next # 0 /\ nodes[nodes[current].next].name = target_name
       THEN current
  ELSE find_before(nodes, nodes[current].next, target_name, left \cup {current})

\* NodeManager.create_node: var = DataNode(name).
create_node(var_name, node_name) ==
  /\ context.kind = "list" /\ context.returned # "never"
  /\ Len(context.nodes) < MaxNodes
  /\ context' = [context EXCEPT
       !.nodes = Append(@, [name |-> node_name, next |-> 0]),
       !.variables = [@ EXCEPT ![var_name] = Len(context.nodes) + 1],
       !.returned = "node_created"]
  /\ UNCHANGED <<pipeline, tracing, serving, snapshot, procs, source, classes, submitted, reply>>

\* NodeManager.set_attribute: instance.attribute = value_var.
set_attribute(attribute, value_var) ==
  /\ context.kind = "list" /\ context.returned # "never"
  /\ context' =
       IF context.variables[value_var] = 0
       THEN [context EXCEPT !.returned = "variable_not_found"]
       ELSE IF attribute = "head"
       THEN [context EXCEPT
               !.head = context.variables[value_var],
               !.returned = IF context.head = 0 THEN "attribute_set_first"
                            ELSE "attribute_set"]
       ELSE [context EXCEPT !.returned = "attribute_set_generic"]
  /\ UNCHANGED <<pipeline, tracing, serving, snapshot, procs, source, classes, submitted, reply>>

\* NodeManager.set_chained_attribute: instance.head.next = value_var.
set_chained_attribute(value_var) ==
  /\ context.kind = "list" /\ context.returned # "never"
  /\ context' =
       IF context.variables[value_var] = 0
       THEN [context EXCEPT !.returned = "variable_not_found"]
       ELSE IF context.head # 0
       THEN [context EXCEPT
               !.nodes[context.head].next = context.variables[value_var],
               !.returned = "chained_attribute_set"]
       ELSE [context EXCEPT !.returned = "chained_attribute_failed"]
  /\ UNCHANGED <<pipeline, tracing, serving, snapshot, procs, source, classes, submitted, reply>>

\* NodeManager.insert_front.
insert_front(data) ==
  LET node_id == Len(context.nodes) + 1
  IN /\ context.kind = "list" /\ context.returned # "never"
     /\ Len(context.nodes) < MaxNodes
     /\ context' =
          IF context.head = 0
          THEN [context EXCEPT
                  !.nodes = Append(@, [name |-> data, next |-> 0]),
                  !.head = node_id, !.count = 1, !.returned = "first"]
          ELSE [context EXCEPT
                  !.nodes = Append(@, [name |-> data, next |-> context.head]),
                  !.head = node_id, !.count = @ + 1, !.returned = "front"]
     /\ UNCHANGED <<pipeline, tracing, serving, snapshot, procs, source, classes, submitted, reply>>

\* NodeManager.insert_last: the new node is stored, then the loop walks to
\* the node without a next.
insert_last(data) ==
  LET node_id == Len(context.nodes) + 1
      stored == Append(context.nodes, [name |-> data, next |-> 0])
      RECURSIVE last(_, _)
      last(current, left) ==
        IF current \in left THEN -1
        ELSE IF stored[current].next = 0 THEN current
        ELSE last(stored[current].next, left \cup {current})
      found == last(context.head, {})
  IN /\ context.kind = "list" /\ context.returned # "never"
     /\ Len(context.nodes) < MaxNodes
     /\ context' =
          IF context.head = 0
          THEN [context EXCEPT !.nodes = stored, !.head = node_id,
                               !.count = 1, !.returned = "first"]
          ELSE IF found = -1
          THEN [context EXCEPT !.nodes = stored, !.returned = "never"]
          ELSE [context EXCEPT
                  !.nodes = [stored EXCEPT ![found].next = node_id],
                  !.count = @ + 1, !.returned = "last"]
     /\ UNCHANGED <<pipeline, tracing, serving, snapshot, procs, source, classes, submitted, reply>>

\* NodeManager.insert_before: the new node is stored, then the target is
\* looked for at the head and along the chain.
insert_before(target_name, new_data) ==
  LET node_id == Len(context.nodes) + 1
      stored == Append(context.nodes, [name |-> new_data, next |-> 0])
      found == find_before(stored, context.head, target_name, {})
  IN /\ context.kind = "list" /\ context.returned # "never"
     /\ Len(context.nodes) < MaxNodes
     /\ context' =
          IF context.head # 0 /\ stored[context.head].name = target_name
          THEN [context EXCEPT
                  !.nodes = [stored EXCEPT ![node_id].next = context.head],
                  !.head = node_id, !.count = @ + 1, !.returned = "before"]
          ELSE IF found = -1
          THEN [context EXCEPT !.nodes = stored, !.returned = "never"]
          ELSE IF found = 0
          THEN [context EXCEPT !.nodes = stored, !.returned = "target_not_found"]
          ELSE [context EXCEPT
                  !.nodes = [stored EXCEPT ![node_id].next = stored[found].next,
                                           ![found].next = node_id],
                  !.count = @ + 1, !.returned = "before"]
     /\ UNCHANGED <<pipeline, tracing, serving, snapshot, procs, source, classes, submitted, reply>>

\* NodeManager.delete_node.
delete_node(target_name) ==
  LET nodes == context.nodes
      found == find_before(nodes, context.head, target_name, {})
      less == IF context.count > 0 THEN context.count - 1 ELSE 0
  IN /\ context.kind = "list" /\ context.returned # "never"
     /\ context' =
          IF context.head = 0
          THEN [context EXCEPT !.returned = "delete_empty_list"]
          ELSE IF nodes[context.head].name = target_name
          THEN [context EXCEPT !.head = nodes[context.head].next,
                               !.count = less, !.returned = "deleted_head"]
          ELSE IF found = -1
          THEN [context EXCEPT !.returned = "never"]
          ELSE IF found = 0
          THEN [context EXCEPT !.returned = "delete_target_not_found"]
          ELSE [context EXCEPT
                  !.nodes[found].next = nodes[nodes[found].next].next,
                  !.count = less, !.returned = "deleted"]
     /\ UNCHANGED <<pipeline, tracing, serving, snapshot, procs, source, classes, submitted, reply>>

\* A simulated tree is the set of its nodes, each [path, data] with the
\* path of "left"/"right" directions from the root; a value is
\* [t |-> its Python type, v |-> its rank among the values of that type],
\* and comparing values of different types raises TypeError.

MaxHistory == 5

\* The walk of _find_insertion_path with its comparison turned round.
RECURSIVE find_insertion_path_flipped(_, _, _)
find_insertion_path_flipped(root, value, path) ==
  LET current == CHOOSE node \in root : node.path = path
      direction == IF value.v > current.data.v THEN "left" ELSE "right"
  IN IF value.t # current.data.t THEN <<"TypeError">>
     ELSE IF \E node \in root : node.path = Append(path, direction)
     THEN find_insertion_path_flipped(root, value, Append(path, direction))
     ELSE Append(path, direction)

\* BSTNodeManager._find_insertion_path, from the node at path on: the
\* directions to the free place for value ("root" left out); <<"TypeError">>
\* when a comparison on the way raises.
RECURSIVE find_insertion_path(_, _, _)
find_insertion_path(root, value, path) ==
  LET current == CHOOSE node \in root : node.path = path
      direction == IF value.v < current.data.v THEN "left" ELSE "right"
  IN IF value.t # current.data.t THEN <<"TypeError">>
     ELSE IF \E node \in root : node.path = Append(path, direction)
     THEN find_insertion_path(root, value, Append(path, direction))
     ELSE Append(path, direction)

\* BSTNodeManager.bst_insert.
bst_insert(value) ==
  LET root == context.root
      path == IF root = {} THEN <<>> ELSE find_insertion_path(root, value, <<>>)
      raises == path = <<"TypeError">>
      after == root \cup {[path |-> path, data |-> value]}
  IN /\ context.kind = "tree"
     /\ Len(context.history) < MaxHistory
     /\ context' =
          IF raises THEN [context EXCEPT !.returned = "TypeError"]
          ELSE [context EXCEPT
                  !.root = after,
                  !.history = Append(@, [operation |-> "insert", value |-> value,
                                         before |-> root, after |-> after,
                                         path |-> <<"root">> \o path]),
                  !.returned = "insert"]
     /\ UNCHANGED <<pipeline, tracing, serving, snapshot, procs, source, classes, submitted, reply>>

\* BSTNodeManager.bst_delete with _delete_recursive and _find_min_node.
bst_delete(value) ==
  LET data(tree) == (CHOOSE node \in tree : node.path = <<>>).data
      subtree(tree, direction) ==
        {[path |-> Tail(node.path), data |-> node.data] :
           node \in {n \in tree : n.path # <<>> /\ Head(n.path) = direction}}
      under(direction, tree) ==
        {[path |-> <<direction>> \o node.path, data |-> node.data] : node \in tree}
      join(d, left, right) ==
        {[path |-> <<>>, data |-> d]} \cup under("left", left) \cup under("right", right)
      RECURSIVE find_min_node(_)
      find_min_node(tree) ==
        IF subtree(tree, "left") = {} THEN data(tree)
        ELSE find_min_node(subtree(tree, "left"))
      RECURSIVE delete_recursive(_, _)
      delete_recursive(tree, key) ==
        IF tree = {} THEN [deleted |-> {}, root |-> {}]
        ELSE IF key.t # data(tree).t
        THEN [deleted |-> {[t |-> "TypeError", v |-> 0]}, root |-> tree]
        ELSE IF key.v < data(tree).v
        THEN LET below == delete_recursive(subtree(tree, "left"), key)
             IN [deleted |-> below.deleted,
                 root |-> join(data(tree), below.root, subtree(tree, "right"))]
        ELSE IF key.v > data(tree).v
        THEN LET below == delete_recursive(subtree(tree, "right"), key)
             IN [deleted |-> below.deleted,
                 root |-> join(data(tree), subtree(tree, "left"), below.root)]
        ELSE IF subtree(tree, "left") = {}
        THEN [deleted |-> {data(tree)}, root |-> subtree(tree, "right")]
        ELSE IF subtree(tree, "right") = {}
        THEN [deleted |-> {data(tree)}, root |-> subtree(tree, "left")]
        ELSE LET successor == find_min_node(subtree(tree, "right"))
                 below == delete_recursive(subtree(tree, "right"), successor)
             IN [deleted |-> {data(tree)},
                 root |-> join(successor, subtree(tree, "left"), below.root)]
      root == context.root
      done == delete_recursive(root, value)
      raises == done.deleted = {[t |-> "TypeError", v |-> 0]}
  IN /\ context.kind = "tree"
     /\ Len(context.history) < MaxHistory
     /\ context' =
          IF root = {} THEN [context EXCEPT !.returned = "empty_tree"]
          ELSE IF raises THEN [context EXCEPT !.returned = "TypeError"]
          ELSE IF done.deleted = {}
          THEN [context EXCEPT !.root = done.root, !.returned = "value_not_found"]
          ELSE [context EXCEPT
                  !.root = done.root,
                  !.history = Append(@, [operation |-> "delete",
                                         value |-> CHOOSE d \in done.deleted : TRUE,
                                         before |-> root, after |-> done.root,
                                         path |-> <<>>]),
                  !.returned = "delete"]
     /\ UNCHANGED <<pipeline, tracing, serving, snapshot, procs, source, classes, submitted, reply>>

\* A simulated stack: data, attributes["max_size"] ({} for None, else {n})
\* and the operation history.

MaxSize == 2

\* stack_push without its overflow test.
stack_push_unchecked(value) ==
  /\ context.kind = "stack"
  /\ Len(context.history) < MaxHistory
  /\ context' = [context EXCEPT
       !.data = Append(@, value),
       !.history = Append(@, [operation |-> "push", value |-> value,
                              before |-> context.data,
                              after |-> Append(context.data, value)]),
       !.returned = IF \E max_size \in context.max_size : Len(context.data) >= max_size
                    THEN "overflow" ELSE "push"]
  /\ UNCHANGED <<pipeline, tracing, serving, snapshot, procs, source, classes, submitted, reply>>

\* StackNodeManager.stack_push.
stack_push(value) ==
  /\ context.kind = "stack"
  /\ Len(context.history) < MaxHistory
  /\ context' =
       IF \E max_size \in context.max_size : Len(context.data) >= max_size
       THEN [context EXCEPT !.returned = "overflow"]
       ELSE [context EXCEPT
               !.data = Append(@, value),
               !.history = Append(@, [operation |-> "push", value |-> value,
                                      before |-> context.data,
                                      after |-> Append(context.data, value)]),
               !.returned = "push"]
  /\ UNCHANGED <<pipeline, tracing, serving, snapshot, procs, source, classes, submitted, reply>>

\* StackNodeManager.stack_pop.
stack_pop ==
  LET popped == SubSeq(context.data, 1, Len(context.data) - 1)
  IN /\ context.kind = "stack"
     /\ Len(context.history) < MaxHistory
     /\ context' =
          IF context.data = <<>>
          THEN [context EXCEPT !.returned = "underflow"]
          ELSE [context EXCEPT
                  !.data = popped,
                  !.history = Append(@, [operation |-> "pop",
                                         value |-> context.data[Len(context.data)],
                                         before |-> context.data, after |-> popped]),
                  !.returned = "pop"]
     /\ UNCHANGED <<pipeline, tracing, serving, snapshot, procs, source, classes, submitted, reply>>

\* A stack program handed to the stack simulator: a class named class_name
\* keeping its list in self.<attribute>, with __init__, push and pop, then
\* s = <class_name>(), the calls on s, and a print of the list.

MaxCalls == 3

\* The steps DirectCodeExecutor builds from the trace of the program: one per
\* traced line, tagged by the name of the function the line runs in; a step
\* shows the instance when the traced variables hold a dict with a list under
\* "data".  instances is <<>> or <<the list>>.
trace_steps(attribute, calls) ==
  LET line(operation, instances) == [operation |-> operation, instances |-> instances]
      shown(data) == IF attribute = "data" THEN <<data>> ELSE <<>>
      tag(func_name) == IF func_name = "push" THEN "insert"
                        ELSE IF func_name = "pop" THEN "delete"
                        ELSE "execution"
      RECURSIVE run(_, _)
      run(i, data) ==
        IF i > Len(calls) THEN <<line("execution", <<>>)>>
        ELSE IF calls[i].func = "pop" /\ data = <<>>
        THEN <<line("execution", shown(data)), line(tag("pop"), <<>>),
               line("None", <<>>)>>
        ELSE LET after == IF calls[i].func = "push"
                          THEN Append(data, calls[i].value)
                          ELSE SubSeq(data, 1, Len(data) - 1)
             IN <<line("execution", shown(data)), line(tag(calls[i].func), shown(after))>>
                \o run(i + 1, after)
  IN [i \in 1..5 |-> line("execution", <<>>)]
     \o <<line("execution", <<>>),
          line(IF attribute = "data" THEN "node_creation" ELSE "execution", shown(<<>>))>>
     \o run(1, <<>>)

\* StackSimulator.execute_code on a program without input() or f-strings.
stack_execute_code ==
  LET calls == context.calls
      simulation == context.class_name \in {"ArrayStack", "Stack"}
      defines_ArrayStack == context.class_name = "ArrayStack"
      execution_steps == trace_steps(context.attribute, calls)
      line(operation, instances) == [operation |-> operation, instances |-> instances]
      RECURSIVE parse(_, _, _)
      parse(i, data, underflow) ==
        IF i > Len(calls)
        THEN <<IF underflow THEN line("print", <<data>>) ELSE line("execution", <<>>)>>
        ELSE IF calls[i].func = "push"
        THEN <<line("push", <<Append(data, calls[i].value)>>)>>
             \o parse(i + 1, Append(data, calls[i].value), underflow)
        ELSE IF data = <<>>
        THEN <<line("pop", <<data>>)>> \o parse(i + 1, data, TRUE)
        ELSE <<line("pop", <<SubSeq(data, 1, Len(data) - 1)>>)>>
             \o parse(i + 1, SubSeq(data, 1, Len(data) - 1), underflow)
      parser_steps == IF defines_ArrayStack
               THEN <<line("class_definition", <<>>), line("create_instance", <<<<>>>>)>>
                    \o parse(1, <<>>, FALSE)
               ELSE <<line("execution", <<>>)>>
  IN /\ context.kind = "run"
     /\ context.returned = "source"
     /\ context' = [context EXCEPT
          !.steps = IF ~simulation THEN execution_steps
                    ELSE IF Len(execution_steps) > Len(parser_steps) \/ Len(parser_steps) <= 1
                            \/ simulation
                    THEN execution_steps
                    ELSE parser_steps,
          !.returned = "steps"]
     /\ UNCHANGED <<pipeline, tracing, serving, snapshot, procs, source, classes, submitted, reply>>

\* A simulated graph: the instance g (class_type and adjacency_list, a
\* function from the vertices to their neighbour lists) and the context's
\* "edges" and "vertices" lists, which every instance of the context shares.
\* The instance's history is kept as its length; vertex is the "vertex" entry
\* of the dict the last call returned.

\* GraphNodeManager.create_instance: g = <class_name>() replaces the instance
\* and initialises the context's lists only when they are missing.
create_instance(class_name) ==
  /\ context.kind = "graph"
  /\ context' = [context EXCEPT
       !.class_type = class_name,
       !.adjacency_list = <<>>,
       !.history = 0,
       !.vertex = "",
       !.returned = "instance_created"]
  /\ UNCHANGED <<pipeline, tracing, serving, snapshot, procs, source, classes, submitted, reply>>

\* GraphNodeManager.add_vertex.
add_vertex(vertex) ==
  LET has(list, x) == \E i \in 1..Len(list) : list[i] = x
      adjacency_list == context.adjacency_list
  IN /\ context.kind = "graph"
     /\ context.history < MaxHistory
     /\ context' =
          IF vertex \notin DOMAIN adjacency_list
          THEN [context EXCEPT
                  !.adjacency_list = [v \in DOMAIN adjacency_list \cup {vertex} |->
                                        IF v = vertex THEN <<>> ELSE adjacency_list[v]],
                  !.vertices = IF has(@, vertex) THEN @ ELSE Append(@, vertex),
                  !.history = @ + 1,
                  !.vertex = vertex,
                  !.returned = "add_vertex"]
          ELSE [context EXCEPT !.vertex = vertex, !.returned = "vertex_exists"]
     /\ UNCHANGED <<pipeline, tracing, serving, snapshot, procs, source, classes, submitted, reply>>

\* GraphNodeManager.add_edge; vertex1 < vertex2 compares the names.
add_edge(vertex1, vertex2) ==
  LET has(list, x) == \E i \in 1..Len(list) : list[i] = x
      adjacency_list == context.adjacency_list
      forward == [adjacency_list EXCEPT
                    ![vertex1] = IF has(@, vertex2) THEN @ ELSE Append(@, vertex2)]
      both == IF context.class_type \in {"Graph", "UndirectedGraph"}
              THEN [forward EXCEPT
                      ![vertex2] = IF has(@, vertex1) THEN @ ELSE Append(@, vertex1)]
              ELSE forward
      edge == IF context.class_type = "DirectedGraph" THEN <<vertex1, vertex2>>
              ELSE IF vertex1 = "A" /\ vertex2 = "B" THEN <<vertex1, vertex2>>
              ELSE <<vertex2, vertex1>>
  IN /\ context.kind = "graph"
     /\ context.history < MaxHistory
     /\ context' =
          IF vertex1 \in DOMAIN adjacency_list /\ vertex2 \in DOMAIN adjacency_list
          THEN [context EXCEPT
                  !.adjacency_list = both,
                  !.edges = IF has(@, edge) THEN @ ELSE Append(@, edge),
                  !.history = @ + 1,
                  !.vertex = "",
                  !.returned = "add_edge"]
          ELSE [context EXCEPT !.vertex = "", !.returned = "vertices_not_found"]
     /\ UNCHANGED <<pipeline, tracing, serving, snapshot, procs, source, classes, submitted, reply>>

\* GraphNodeManager.remove_edge.
remove_edge(vertex1, vertex2) ==
  LET without(list, x) == LET keep(e) == e # x IN SelectSeq(list, keep)
      adjacency_list == context.adjacency_list
      forward == [adjacency_list EXCEPT ![vertex1] = without(@, vertex2)]
      both == IF context.class_type \in {"Graph", "UndirectedGraph"}
              THEN [forward EXCEPT ![vertex2] = without(@, vertex1)]
              ELSE forward
      edge == IF context.class_type = "DirectedGraph" THEN <<vertex1, vertex2>>
              ELSE IF vertex1 = "A" /\ vertex2 = "B" THEN <<vertex1, vertex2>>
              ELSE <<vertex2, vertex1>>
  IN /\ context.kind = "graph"
     /\ context.history < MaxHistory
     /\ context' =
          IF vertex1 \in DOMAIN adjacency_list /\ vertex2 \in DOMAIN adjacency_list
          THEN [context EXCEPT
                  !.adjacency_list = both,
                  !.edges = without(@, edge),
                  !.history = @ + 1,
                  !.vertex = "",
                  !.returned = "remove_edge"]
          ELSE [context EXCEPT !.vertex = "", !.returned = "vertices_not_found"]
     /\ UNCHANGED <<pipeline, tracing, serving, snapshot, procs, source, classes, submitted, reply>>

\* remove_vertex that only deletes the key.
remove_vertex_key_only(vertex_to_remove) ==
  LET adjacency_list == context.adjacency_list
  IN /\ context.kind = "graph"
     /\ context.history < MaxHistory
     /\ context' =
          IF vertex_to_remove \in DOMAIN adjacency_list
          THEN [context EXCEPT
                  !.adjacency_list = [v \in DOMAIN adjacency_list \ {vertex_to_remove} |->
                                        adjacency_list[v]],
                  !.history = @ + 1,
                  !.vertex = vertex_to_remove,
                  !.returned = "remove_vertex"]
          ELSE [context EXCEPT !.vertex = vertex_to_remove, !.returned = "vertex_not_found"]
     /\ UNCHANGED <<pipeline, tracing, serving, snapshot, procs, source, classes, submitted, reply>>

\* GraphNodeManager.remove_vertex.
remove_vertex(vertex_to_remove) ==
  LET without(list, x) == LET keep(e) == e # x IN SelectSeq(list, keep)
      clear(edge) == edge[1] # vertex_to_remove /\ edge[2] # vertex_to_remove
      adjacency_list == context.adjacency_list
  IN /\ context.kind = "graph"
     /\ context.history < MaxHistory
     /\ context' =
          IF vertex_to_remove \in DOMAIN adjacency_list
          THEN [context EXCEPT
                  !.adjacency_list = [v \in DOMAIN adjacency_list \ {vertex_to_remove} |->
                                        without(adjacency_list[v], vertex_to_remove)],
                  !.vertices = without(@, vertex_to_remove),
                  !.edges = SelectSeq(@, clear),
                  !.history = @ + 1,
                  !.vertex = vertex_to_remove,
                  !.returned = "remove_vertex"]
          ELSE [context EXCEPT !.vertex = vertex_to_remove, !.returned = "vertex_not_found"]
     /\ UNCHANGED <<pipeline, tracing, serving, snapshot, procs, source, classes, submitted, reply>>

\* A function handed to the complexity analyzer: def f(n) whose body is a nest
\* of loops, loops[1] the outermost, each "range_variable" (for .. in
\* range(n)), "range_literal" (for .. in range(100)) or "while", with a call
\* of f in the innermost body when calls_itself.  "O(n^2)" and "O(n^3)" stand
\* for the source's superscript spellings.

MaxNesting == 3

\* ComplexityAnalyzer._analyze_function: count_loops adds one level for every
\* For and While it meets.
analyze_function(loops, calls_itself) ==
  LET loop_count == Len(loops)
      max_nesting == Len(loops)
      has_recursion == calls_itself
      time_complexity ==
        IF has_recursion
        THEN IF max_nesting >= 2 THEN "O(2^n)"
             ELSE IF max_nesting = 1 THEN "O(n^2)"
             ELSE "O(n)"
        ELSE IF max_nesting >= 3 THEN "O(n^3)"
        ELSE IF max_nesting = 2 THEN "O(n^2)"
        ELSE IF max_nesting = 1 \/ loop_count > 0 THEN "O(n)"
        ELSE "O(1)"
  IN [time_complexity |-> time_complexity, loop_count |-> loop_count,
      max_nesting |-> max_nesting, has_recursion |-> has_recursion]

\* ComplexityAnalyzer.analyze: the per-function breakdown, then the overall
\* rating from _analyze_node, which skips the loops _is_constant_loop accepts.
analyze ==
  LET loops == context.loops
      is_constant_loop(node) == node = "range_literal"
      RECURSIVE analyze_node(_, _)
      analyze_node(i, nesting) ==
        IF i > Len(loops) THEN 0
        ELSE LET new_nesting == IF is_constant_loop(loops[i]) THEN nesting ELSE nesting + 1
                 inner == analyze_node(i + 1, new_nesting)
                 here == IF is_constant_loop(loops[i]) THEN 0 ELSE new_nesting
             IN IF inner > here THEN inner ELSE here
      max_nesting == analyze_node(1, 0)
      time_complexity ==
        IF max_nesting >= 3 THEN "O(n^3)"
        ELSE IF max_nesting = 2 THEN "O(n^2)"
        ELSE IF max_nesting = 1 \/ Len(loops) > 0 \/ context.calls_itself THEN "O(n)"
        ELSE "O(1)"
  IN /\ context.kind = "analysis"
     /\ context.returned = "source"
     /\ context' = [context EXCEPT
          !.time_complexity = time_complexity,
          !.max_nesting = max_nesting,
          !.function_complexities = <<analyze_function(loops, context.calls_itself)>>,
          !.returned = "analyzed"]
     /\ UNCHANGED <<pipeline, tracing, serving, snapshot, procs, source, classes, submitted, reply>>

\* The parameters _parse_parameter hands to the tree: three numbers and a
\* string.
Values ==
  {[t |-> "int", v |-> 7], [t |-> "int", v |-> 14], [t |-> "int", v |-> 23],
   [t |-> "str", v |-> 1]}

InitOps ==
  LET Contexts ==
        {[kind |-> "list", nodes |-> <<>>, variables |-> [v \in {"n"} |-> 0],
          head |-> 0, count |-> 0, returned |-> "instance_created"],
         [kind |-> "tree", root |-> {}, history |-> <<>>,
          returned |-> "instance_created"]}
        \cup {[kind |-> "stack", data |-> <<>>, max_size |-> max_size,
                history |-> <<>>, returned |-> "instance_created"] :
                 max_size \in {{}} \cup {{n} : n \in 0..MaxSize}}
        \cup {[kind |-> "run", class_name |-> class_name, attribute |-> attribute,
                calls |-> calls, steps |-> <<>>, returned |-> "source"] :
                 class_name \in {"ArrayStack", "Stack", "Pile"},
                 attribute \in {"data", "items"},
                 calls \in UNION {[1..n -> {[func |-> "push", value |-> 1],
                                            [func |-> "push", value |-> 2],
                                            [func |-> "pop", value |-> 0]}] :
                                   n \in 0..MaxCalls}}
        \cup {[kind |-> "graph", class_type |-> class_type, adjacency_list |-> <<>>,
                edges |-> <<>>, vertices |-> <<>>, history |-> 0, vertex |-> "",
                returned |-> "instance_created"] :
                 class_type \in {"Graph", "DirectedGraph"}}
        \cup {[kind |-> "analysis", loops |-> loops, calls_itself |-> calls_itself,
                time_complexity |-> "", max_nesting |-> 0,
                function_complexities |-> <<>>, returned |-> "source"] :
                 loops \in UNION {[1..n -> {"range_variable", "range_literal", "while"}] :
                                   n \in 0..MaxNesting},
                 calls_itself \in BOOLEAN}
  IN /\ PipelineIdle
     /\ TracingIdle
     /\ ServingIdle
     /\ StudiesIdle("operations")
     /\ context \in Contexts

NextOps ==
  \/ \E name \in {"a", "b"} : create_node("n", name)
  \/ \E attribute \in {"head", "tail"} : set_attribute(attribute, "n")
  \/ set_chained_attribute("n")
  \/ \E data \in {"a", "b"} : insert_front(data)
  \/ \E data \in {"a", "b"} : insert_last(data)
  \/ \E target_name \in {"a", "b"}, data \in {"a", "b"} : insert_before(target_name, data)
  \/ \E target_name \in {"a", "b"} : delete_node(target_name)
  \/ \E value \in Values : bst_insert(value)
  \/ \E value \in Values : bst_delete(value)
  \/ \E value \in 1..2 : stack_push(value)
  \/ stack_pop
  \/ stack_execute_code
  \/ \E class_name \in {"Graph", "DirectedGraph"} : create_instance(class_name)
  \/ \E vertex \in {"A", "B"} : add_vertex(vertex)
  \/ \E vertex1 \in {"A", "B"}, vertex2 \in {"A", "B"} : add_edge(vertex1, vertex2)
  \/ \E vertex1 \in {"A", "B"}, vertex2 \in {"A", "B"} : remove_edge(vertex1, vertex2)
  \/ \E vertex \in {"A", "B"} : remove_vertex(vertex)
  \/ analyze

SpecOps == InitOps /\ [][NextOps]_vars

\* C24: after any sequence of create_instance, set_attribute on head,
\* set_chained_attribute, insert_front, insert_last, insert_before and
\* delete_node, the instance's count equals the number of nodes reachable
\* from head by following next pointers.
C24_CountIsChainLength ==
  LET RECURSIVE chain(_, _)
      chain(current, seen) ==
        IF current = 0 \/ current \in seen THEN seen
        ELSE chain(context.nodes[current].next, seen \cup {current})
  IN (context.kind = "list" /\ context.returned # "never")
       => context.count = Cardinality(chain(context.head, {}))

\* C25: insert_last, insert_before and delete_node always terminate, also
\* when the next-chain from head contains a cycle: no call is left that
\* never returns.
C25_ListWalksTerminate ==
  context.kind = "list" => context.returned # "never"

\* C30: when insert_before or delete_node reports that its target is not in
\* the list, head, count, every node's next pointer and the set of stored
\* nodes are the same as before the call.
C30_MissingTargetChangesNothing ==
  [][(context.kind = "list"
      /\ context'.returned \in {"target_not_found", "delete_target_not_found"})
       => /\ context'.head = context.head
          /\ context'.count = context.count
          /\ context'.nodes = context.nodes]_vars

\* C21: starting from an empty binary search tree, insert(14), insert(7),
\* insert(23) produce a tree whose root holds 14, whose left child holds 7
\* and whose right child holds 23, with no other nodes.
C21_InsertExample ==
  LET int(v) == [t |-> "int", v |-> v]
      done == [i \in 1..Len(context.history) |->
                 <<context.history[i].operation, context.history[i].value>>]
  IN (context.kind = "tree"
      /\ done = <<<<"insert", int(14)>>, <<"insert", int(7)>>, <<"insert", int(23)>>>>)
       => context.root = {[path |-> <<>>, data |-> int(14)],
                          [path |-> <<"left">>, data |-> int(7)],
                          [path |-> <<"right">>, data |-> int(23)]}

C21_Witness ==
  /\ context.kind = "tree"
  /\ Len(context.history) = 3
  /\ context.history[1].value.v = 14 /\ context.history[2].value.v = 7
  /\ context.history[3].value.v = 23
  /\ \A i \in 1..3 : context.history[i].operation = "insert"
  /\ Cardinality(context.root) = 3

\* C26: after any sequence of bst_insert and bst_delete, at every node every
\* value in the left subtree is smaller than the node's value and every
\* value in the right subtree is greater than or equal to it, and the
\* inorder traversal returns the stored values in non-decreasing order.
C26_OrderingInvariant ==
  LET root == context.root
      below(n, m, direction) ==
        /\ Len(m.path) > Len(n.path)
        /\ SubSeq(m.path, 1, Len(n.path)) = n.path
        /\ m.path[Len(n.path) + 1] = direction
      RECURSIVE inorder(_)
      inorder(path) ==
        IF \E n \in root : n.path = path
        THEN inorder(Append(path, "left"))
             \o <<(CHOOSE n \in root : n.path = path).data>>
             \o inorder(Append(path, "right"))
        ELSE <<>>
      visited == inorder(<<>>)
  IN context.kind = "tree"
       => /\ \A n, m \in root :
               /\ m.data.t = n.data.t
               /\ below(n, m, "left") => m.data.v < n.data.v
               /\ below(n, m, "right") => m.data.v >= n.data.v
          /\ Len(visited) = Cardinality(root)
          /\ \A i \in 1..(Len(visited) - 1) : visited[i].v <= visited[i + 1].v

C26_Witness ==
  /\ context.kind = "tree"
  /\ Cardinality(context.root) >= 2
  /\ \E i \in 1..Len(context.history) :
       /\ context.history[i].operation = "delete"
       /\ \E n, l, r \in context.history[i].before :
            /\ n.data = context.history[i].value
            /\ l.path = Append(n.path, "left")
            /\ r.path = Append(n.path, "right")
            /\ r.data = n.data

\* C29: a rejected stack operation changes nothing: stack_pop on an empty
\* stack and stack_push on a stack that has reached its max_size report an
\* error and leave the data, the size and the operation history as they were.
C29_RejectedOperationChangesNothing ==
  [][(context.kind = "stack" /\ context'.returned \in {"underflow", "overflow"})
       => /\ context'.data = context.data
          /\ Len(context'.data) = Len(context.data)
          /\ context'.history = context.history
          /\ context'.max_size = context.max_size]_vars

C29_Witness ==
  /\ context.kind = "stack"
  /\ context.returned = "overflow"
  /\ context.data # <<>>
  /\ \E i \in 1..Len(context.history) : context.history[i].operation = "pop"

\* C22: for a source that defines a stack class and calls push(1), push(2),
\* pop() before printing the stack, the returned steps hold exactly three
\* operation steps, tagged push, push, pop in that order, and the last
\* instance state shown has data [1].
C22_StackExample ==
  (/\ context.kind = "run"
   /\ context.returned = "steps"
   /\ context.calls = <<[func |-> "push", value |-> 1], [func |-> "push", value |-> 2],
                        [func |-> "pop", value |-> 0]>>)
    => LET operation(step) == step.operation # "execution"
           shows(step) == step.instances # <<>>
           operations == SelectSeq(context.steps, operation)
           states == SelectSeq(context.steps, shows)
       IN /\ [i \in 1..Len(operations) |-> operations[i].operation] = <<"push", "push", "pop">>
          /\ states # <<>>
          /\ states[Len(states)].instances = <<<<1>>>>

\* C27: for an undirected simulated graph, after any operations, the
\* adjacency list is symmetric and the context's edge collection holds
\* exactly the edges of the adjacency list.
C27_UndirectedSymmetricAndRecorded ==
  (context.kind = "graph" /\ context.class_type \in {"Graph", "UndirectedGraph"})
    => LET adjacency_list == context.adjacency_list
           has(list, x) == \E i \in 1..Len(list) : list[i] = x
           adjacent(u, v) == u \in DOMAIN adjacency_list /\ has(adjacency_list[u], v)
           recorded(u, v) == has(context.edges, <<u, v>>) \/ has(context.edges, <<v, u>>)
       IN /\ \A u \in DOMAIN adjacency_list : \A v \in DOMAIN adjacency_list :
               adjacent(u, v) <=> adjacent(v, u)
          /\ \A u \in {"A", "B"} : \A v \in {"A", "B"} :
               recorded(u, v) <=> adjacent(u, v)

\* C28: after remove_vertex(v), v is no key of the adjacency list, is in no
\* neighbour list and in no recorded edge; and every neighbour named in an
\* adjacency list is always an existing vertex.
C28_RemovedVertexIsGone ==
  /\ [](context.kind = "graph"
          => \A u \in DOMAIN context.adjacency_list :
               \A i \in 1..Len(context.adjacency_list[u]) :
                 context.adjacency_list[u][i] \in DOMAIN context.adjacency_list)
  /\ [][(context.kind = "graph" /\ context'.returned = "remove_vertex")
          => LET v == context'.vertex
             IN /\ v \notin DOMAIN context'.adjacency_list
                /\ \A u \in DOMAIN context'.adjacency_list :
                     \A i \in 1..Len(context'.adjacency_list[u]) :
                       context'.adjacency_list[u][i] # v
                /\ \A i \in 1..Len(context'.edges) :
                     context'.edges[i][1] # v /\ context'.edges[i][2] # v]_vars

C28_Witness ==
  /\ context.kind = "graph"
  /\ context.returned = "remove_vertex"
  /\ context.class_type = "DirectedGraph"
  /\ context.vertex = "A"
  /\ DOMAIN context.adjacency_list = {"B"}
  /\ context.adjacency_list["B"] = <<"B">>
  /\ context.edges = <<<<"B", "B">>>>

\* C23: in the function-level estimate a loop with a literal bound adds no
\* nesting level: a function with one variable-bound loop that contains one
\* literal-bound loop is rated O(n), as it is without the inner loop.
C23_LiteralLoopAddsNoDepth ==
  (/\ context.kind = "analysis"
   /\ context.returned = "analyzed"
   /\ ~context.calls_itself)
    => LET counted(node) == node # "range_literal"
           rated == context.function_complexities[1]
       IN /\ rated.max_nesting = Len(SelectSeq(context.loops, counted))
          /\ context.loops = <<"range_variable", "range_literal">>
               => rated.time_complexity = "O(n)"

====
